---------------------------- MODULE Spec2Model ----------------------------
(***************************************************************************)
(* Password-rotation flows of anchorbrowser/password-rotation-examples:    *)
(* fandom (src/fandom.ts), pcpartpicker (src/unnamed/part_000), zillow     *)
(* (src/unnamed/part_001), weather (src/unnamed/part_002) and wikipedia    *)
(* (the TypeScript appended to src/README.md).                             *)
(*                                                                         *)
(* One run of one exported flow function is modelled.  The remote browser  *)
(* (session provider, page, DOM) is the environment: every awaited call    *)
(* either settles or throws, and a navigation lands on some URL.  Strings  *)
(* are the program's own strings, so includes(), new URL(..).host and      *)
(* '*'.repeat(n) are computed, not assumed.                                *)
(***************************************************************************)
EXTENDS Integers, Sequences, FiniteSets, TLC

VARIABLES
    flow,          \* which exported flow function was invoked
    sessionId,     \* process.env.ANCHOR_SESSION_ID || ''
    username,      \* INPUTS.username / INPUTS.email          ("" when unset)
    password,      \* INPUTS.password / oldPassword / currentPassword
    newPassword,   \* INPUTS.newPassword
    currentPassword, \* weather only: INPUTS.currentPassword ("" when unset)
    totpCode,      \* wikipedia only: INPUTS.totpCode ("" when unset)
    site,          \* wikipedia only: what the wiki's pages are built with
    pc,            \* position in the flow function
    url,           \* page.url()
    trace,         \* provider calls, page calls and console lines, in order
    outcome,       \* "running" | "returned" | "rejected"
    results,       \* the Run Results handed to the caller
    signals,       \* post-submission success signals the page showed
    reauth,        \* fandom: "none" | "detected" | "absent"
    faults,        \* failures tolerated so far in this run (model bound)
    selector,      \* clickWithRetry: parameter selector
    attempts,      \* clickWithRetry: parameter attempts
    i,             \* clickWithRetry: loop counter
    lastErr,       \* clickWithRetry: lastErr
    retryStatus,   \* clickWithRetry: "idle" | "running" | "returned" | "threw"
    form           \* a form field being filled: its content and the filler's progress

inputVars == <<flow, sessionId, username, password, newPassword, currentPassword,
               site>>
retryVars == <<selector, attempts, i, lastErr, retryStatus>>
vars == <<flow, sessionId, username, password, newPassword, currentPassword,
          site, totpCode, pc, url, trace, faults, outcome, results, signals, reauth, selector,
          attempts, i, lastErr, retryStatus, form>>

----------------------------------------------------------------------------
(* Bounds of the model *)

\* largest value of the parameter attempts tried for clickWithRetry
MaxAttempts == 3

\* how many tolerated failures (a swallowed load timeout, a navigation that
\* threw but is accepted, a clickWithRetry call whose clicks fail) the
\* environment produces in one run
MaxFaults == 1

----------------------------------------------------------------------------
(* String helpers: JavaScript's String.prototype on TLC strings *)

Min(a, b) == IF a < b THEN a ELSE b
Max(a, b) == IF a > b THEN a ELSE b

\* s.includes(sub)
Includes(s, sub) ==
    \E k \in 1..(Len(s) - Len(sub) + 1) : SubSeq(s, k, k + Len(sub) - 1) = sub

\* s.indexOf(sub) + 1, 0 when absent
IndexOf(s, sub) ==
    IF Includes(s, sub)
    THEN CHOOSE k \in 1..(Len(s) - Len(sub) + 1) :
            /\ SubSeq(s, k, k + Len(sub) - 1) = sub
            /\ \A j \in 1..(k - 1) : SubSeq(s, j, j + Len(sub) - 1) # sub
    ELSE 0

\* c.repeat(n)
RECURSIVE Repeat(_, _)
Repeat(c, n) == IF n <= 0 THEN "" ELSE c \o Repeat(c, n - 1)

\* arr.join(sep)
RECURSIVE Join(_, _)
Join(arr, sep) ==
    IF Len(arr) = 0 THEN ""
    ELSE IF Len(arr) = 1 THEN arr[1]
    ELSE arr[1] \o sep \o Join(Tail(arr), sep)

\* the prefix of s before the first of the characters in stops
RECURSIVE UpTo(_, _)
UpTo(s, stops) ==
    IF Len(s) = 0 \/ SubSeq(s, 1, 1) \in stops THEN ""
    ELSE SubSeq(s, 1, 1) \o UpTo(Tail(s), stops)

\* baseUrl.replace(/\/$/, '')
StripTrailingSlash(s) ==
    IF Len(s) > 0 /\ SubSeq(s, Len(s), Len(s)) = "/"
    THEN SubSeq(s, 1, Len(s) - 1) ELSE s

\* new URL(u) throws unless u is absolute
ValidURL(u) == Includes(u, ":") /\ IndexOf(u, ":") > 1

\* new URL(u).host: the authority, port included; '' for about:blank
URLHost(u) ==
    IF Includes(u, "://")
    THEN UpTo(SubSeq(u, IndexOf(u, "://") + 3, Len(u)), {"/", "?", "#"})
    ELSE ""

\* new URL(u).hostname: the authority without its port
URLHostname(u) == UpTo(URLHost(u), {":"})

\* String(err) and (err?.message || err) for a thrown Error
ErrString(e) == IF e.message = "" THEN e.name ELSE e.name \o ": " \o e.message
ErrMessageOr(e) == IF e.message # "" THEN e.message ELSE ErrString(e)

\* errors the provider and the page throw
Errors ==
    { [name |-> "TimeoutError", message |-> "Timeout exceeded."],
      [name |-> "Error", message |-> ""] }

NoErr == [name |-> "", message |-> ""]

----------------------------------------------------------------------------
(* Trace events *)

Op(name, tgt, val) == [k |-> "op", a |-> name, b |-> tgt, c |-> val]
Log(level, text)   == [k |-> "log", a |-> level, b |-> text, c |-> ""]

\* a wait for navigation or load that follows or accompanies an action rejected
WaitFailed(what, where) == [k |-> "waitFailed", a |-> what, b |-> where, c |-> ""]

\* an awaited call of a retried action rejected with error e
Threw(e) == [k |-> "threw", a |-> e.name, b |-> e.message, c |-> ""]

IsOp(ev)  == ev.k = "op"
IsLog(ev) == ev.k = "log"

\* a block of sequential awaited calls and console lines: the events run when
\* the call at position f throws (f = 0: none throws)
Ran(block, f) == IF f = 0 THEN block ELSE SubSeq(block, 1, f)
OpPositions(block) == {p \in 1..Len(block) : IsOp(block[p])}

RunResult(ok, msg) == [success |-> ok, message |-> msg]

Flows == {"fandom", "pcpartpicker", "zillow", "weather", "wikipedia"}


----------------------------------------------------------------------------
(* Inputs *)

\* values a credential environment variable takes; "" is unset or empty
Usernames == {"", "alice"}
Passwords == {"", "P@ss1", "correct-horse-9"}
PasswordsOf(f) == IF f = "zillow" THEN Passwords ELSE {"", "P@ss1"}
NewPasswords == {"", "P@ss2!"}
SessionIds == {"", "sess-1"}

\* the names the flows print for their required inputs
InputName(f, which) ==
    CASE f = "fandom" ->
           [user |-> "ANCHOR_FANDOM_USERNAME", cur |-> "ANCHOR_FANDOM_PASSWORD",
            new |-> "ANCHOR_FANDOM_NEW_PASSWORD"][which]
      [] f = "pcpartpicker" ->
           [user |-> "ANCHOR_USERNAME (or ANCHOR_LOGIN / ANCHOR_EMAIL)",
            cur |-> "ANCHOR_PASSWORD (or ANCHOR_OLD_PASSWORD)",
            new |-> "ANCHOR_NEW_PASSWORD"][which]
      [] f = "zillow" ->
           [user |-> "ANCHOR_EMAIL", cur |-> "ANCHOR_CURRENT_PASSWORD",
            new |-> "ANCHOR_NEW_PASSWORD"][which]
      [] f = "weather" ->
           [user |-> "ANCHOR_WEATHER_EMAIL/ANCHOR_USERNAME",
            cur |-> "ANCHOR_WEATHER_PASSWORD/ANCHOR_PASSWORD",
            new |-> "ANCHOR_WEATHER_NEW_PASSWORD/ANCHOR_NEW_PASSWORD"][which]
      [] f = "wikipedia" ->
           [user |-> "ANCHOR_WIKI_USERNAME", cur |-> "ANCHOR_WIKI_PASSWORD",
            new |-> "ANCHOR_WIKI_NEW_PASSWORD"][which]

\* listMissingInputs(): the names of the falsy inputs, in the order tested
listMissingInputs(f) ==
    (IF username = "" THEN <<InputName(f, "user")>> ELSE <<>>)
    \o (IF password = "" THEN <<InputName(f, "cur")>> ELSE <<>>)
    \o (IF newPassword = "" THEN <<InputName(f, "new")>> ELSE <<>>)

\* the fixed text fandom, weather and wikipedia print: all three names
AllInputNames(f) ==
    <<InputName(f, "user"), InputName(f, "cur"), InputName(f, "new")>>

\* !username || !password || !newPassword
SomeInputMissing == username = "" \/ password = "" \/ newPassword = ""

\* the message of the validation failure
MissingMessage(f) ==
    "Missing required inputs: "
    \o Join(IF f \in {"pcpartpicker", "zillow"}
            THEN listMissingInputs(f) ELSE AllInputNames(f), ", ")

----------------------------------------------------------------------------
(* Transitions shared by the flows *)

\* go on to next after evs, nf of them tolerated failures
StepF(next, evs, nf) ==
    /\ faults + nf <= MaxFaults
    /\ faults' = faults + nf
    /\ pc' = next
    /\ trace' = trace \o evs
    /\ UNCHANGED <<inputVars, outcome, results, form>>

Step(next, evs) == StepF(next, evs, 0)

\* return { success, message } after evs, nf of them tolerated failures
ReturnF(res, evs, nf) ==
    /\ faults + nf <= MaxFaults
    /\ faults' = faults + nf
    /\ pc' = "done"
    /\ trace' = trace \o evs
    /\ outcome' = "returned"
    /\ results' = Append(results, res)
    /\ UNCHANGED <<inputVars, form>>

Return(res, evs) == ReturnF(res, evs, 0)

\* an error leaves the async function: the promise it returned rejects
Reject(evs) ==
    /\ pc' = "done"
    /\ trace' = trace \o evs
    /\ outcome' = "rejected"
    /\ UNCHANGED <<inputVars, results, faults, form>>

\* the message built in the flow's catch clause
CatchMessage(f, e) ==
    CASE f = "fandom"       -> "Workflow failed: " \o ErrMessageOr(e)
      [] f = "pcpartpicker" -> "Unhandled error in flow: " \o ErrString(e)
      [] f = "zillow"       -> "Workflow error: " \o ErrMessageOr(e)
      [] f = "weather"      -> "Flow failed: " \o ErrMessageOr(e)
      [] f = "wikipedia"    -> "Failed during workflow: " \o ErrMessageOr(e)

\* what the catch clause prints with console.error
CatchLog(f, e) ==
    IF f = "wikipedia" THEN "[error] " \o ErrMessageOr(e) ELSE CatchMessage(f, e)

\* catch (error) { console.error(..); return { success: false, message } }
Catch(e, evs) ==
    Return(RunResult(FALSE, CatchMessage(flow, e)),
           evs \o <<Log("error", CatchLog(flow, e))>>)

\* a block of awaited calls inside the try: all settle, or one throws
Block(at, block, next) ==
    /\ pc = at
    /\ \E f \in {0} \cup OpPositions(block) :
          IF f = 0 THEN Step(next, block)
          ELSE \E e \in Errors : Catch(e, Ran(block, f))

----------------------------------------------------------------------------
(* Session and page handle, then input validation: the head of every flow *)

\* getAnchorBrowser(), awaited before the try
getAnchorBrowser ==
    /\ pc = "getAnchorBrowser"
    /\ LET call == IF sessionId # "" THEN Op("browser.connect", sessionId, "")
                   ELSE Op("browser.create", "", "")
       IN \/ Step("page", <<call>>)
          \/ Reject(<<call>>)
    /\ UNCHANGED <<url, signals, reauth, retryVars, totpCode>>

\* const page = browser.contexts()[0].pages()[0], before the try
GetPage ==
    /\ pc = "page"
    /\ LET call == Op("contexts()[0].pages()[0]", "", "")
       IN \/ Step("validate", <<call>>)
          \/ Reject(<<call>>)
    /\ UNCHANGED <<url, signals, reauth, retryVars, totpCode>>

\* the first label inside the try of each flow
FirstStep(f) ==
    CASE f = "fandom"       -> "f_gotoLogin"
      [] f = "pcpartpicker" -> "p_gotoLogin"
      [] f = "zillow"       -> "z_gotoLogin"
      [] f = "weather"      -> "w_gotoBase"
      [] f = "wikipedia"    -> "k_ensureLoggedIn"

\* if (missing) { console.error(msg); return { success: false, message: msg } }
ValidateInputs ==
    /\ pc = "validate"
    /\ IF SomeInputMissing
       THEN Return(RunResult(FALSE, MissingMessage(flow)),
                   <<Log("error", MissingMessage(flow))>>)
       ELSE Step(FirstStep(flow), <<>>)
    /\ UNCHANGED <<url, signals, reauth, retryVars, totpCode>>

----------------------------------------------------------------------------
(* fandom: src/fandom.ts *)

FandomBaseUrl == "https://community.fandom.com"

\* buildUrls(baseUrl)
buildUrls(baseUrl) ==
    [loginUrl |-> StripTrailingSlash(baseUrl) \o "/wiki/Special:UserLogin",
     changePasswordUrl |-> StripTrailingSlash(baseUrl) \o "/wiki/Special:ChangePassword",
     logoutUrl |-> StripTrailingSlash(baseUrl) \o "/wiki/Special:UserLogout"]

\* SEL
SEL ==
    [signinUsername |-> "input#identifier[data-test=signin-username-field]",
     signinPassword |-> "input#password[data-test=signin-password-field]",
     signinSubmit |-> "button#method[data-test=signin-password-submit]",
     settingsNewPassword |-> "input#password[data-test=settings-password-field]",
     logoutConfirm |-> "input.wds-button[type=submit][value=Confirm]"]

\* where a fandom navigation can leave the page
FandomPages ==
    {"https://auth.fandom.com/signin", "https://community.fandom.com/f"}

\* signIn(page, username, password) up to the submit
signInForm(user, pwd) ==
    << Op("waitForSelector", SEL.signinUsername, ""),
       Op("click", SEL.signinUsername, ""),
       Op("fill", SEL.signinUsername, user),
       Op("click", SEL.signinPassword, ""),
       Op("fill", SEL.signinPassword, pwd),
       Log("log", "Submitting sign-in form") >>

\* signIn's Promise.all([page.waitForNavigation(..), submit.click()])
signInSubmit ==
    << Op("waitForNavigation", "load", ""), Op("click", SEL.signinSubmit, "") >>

\* a re-authentication that signs in with the password just replaced
ReauthPassword_Old == password

\* the password the re-authentication signs in with
ReauthPassword == newPassword

\* STEP 1: page.goto(loginUrl)
Fandom_GotoLogin ==
    /\ pc = "f_gotoLogin"
    /\ LET evs == << Log("log", "Navigating to login page: "
                                \o buildUrls(FandomBaseUrl).loginUrl),
                     Op("goto", buildUrls(FandomBaseUrl).loginUrl, "") >>
       IN \/ \E u \in FandomPages : Step("f_waitSignin", evs) /\ url' = u
          \/ \E e \in Errors : Catch(e, evs) /\ url' = url
    /\ UNCHANGED <<signals, reauth, retryVars, totpCode>>

\* STEP 1, 2: wait for the sign-in form, then signIn(page, username, password)
Fandom_SignInForm ==
    /\ Block("f_waitSignin",
             << Log("log", "Waiting for Fandom Auth sign-in form"),
                Op("waitForSelector", SEL.signinUsername, ""),
                Log("log", "Filling credentials and logging in (current password)") >>
             \o signInForm(username, password),
             "f_signInSubmit")
    /\ UNCHANGED <<url, signals, reauth, retryVars, totpCode>>

\* signIn's submit: the click and the navigation wait are both awaited, and a
\* failure of either one throws
Fandom_SignInSubmit ==
    /\ pc = "f_signInSubmit"
    /\ \/ \E u \in FandomPages :
            /\ url' = u
            /\ Step("f_gotoChange",
                    signInSubmit
                    \o << Log("log", "Sign-in attempted. Current URL: " \o u) >>
                    \o (IF ~Includes(u, "community.fandom.com")
                        THEN << Log("log", "Post-login URL is not on community.fandom.com; proceeding anyway as redirects may follow.") >>
                        ELSE << >>))
       \/ \E e \in Errors : Catch(e, signInSubmit) /\ url' = url
       \* the click settles and the navigation wait rejects: Promise.all rejects
       \/ \E e \in Errors :
             /\ Catch(e, signInSubmit \o << WaitFailed("waitForNavigation", "signIn") >>)
             /\ url' = url
    /\ UNCHANGED <<signals, reauth, retryVars, totpCode>>

\* STEP 3: page.goto(changePasswordUrl)
Fandom_GotoChangePassword ==
    /\ pc = "f_gotoChange"
    /\ LET evs == << Log("log", "Navigating to change password page: "
                                \o buildUrls(FandomBaseUrl).changePasswordUrl),
                     Op("goto", buildUrls(FandomBaseUrl).changePasswordUrl, "") >>
       IN \/ \E u \in FandomPages : Step("f_enterNew", evs) /\ url' = u
          \/ \E e \in Errors : Catch(e, evs) /\ url' = url
    /\ UNCHANGED <<signals, reauth, retryVars, totpCode>>

\* STEP 3, 4: wait for the new-password field, click it, fill it
Fandom_EnterNewPassword ==
    /\ Block("f_enterNew",
             << Log("log", "Waiting for settings new password field on Auth Settings page"),
                Op("waitForSelector", SEL.settingsNewPassword, ""),
                Log("log", "Entering new password"),
                Op("click", SEL.settingsNewPassword, ""),
                Op("fill", SEL.settingsNewPassword, newPassword),
                Log("log", "Submitting new password (press Enter)") >>,
             "f_submitNew")
    /\ UNCHANGED <<url, signals, reauth, retryVars, totpCode>>

\* STEP 4: Promise.all([waitForNavigation().catch(() => {}), press('Enter')])
Fandom_SubmitNewPassword ==
    /\ pc = "f_submitNew"
    /\ LET evs == << Op("waitForNavigation", "load", ""),
                     Op("press", SEL.settingsNewPassword, "Enter") >>
       IN \/ \E u \in FandomPages : Step("f_reauth", evs) /\ url' = u
          \/ /\ Step("f_reauth", evs \o << WaitFailed("waitForNavigation",
                                                         "submit new password") >>)
             /\ url' = url   \* no navigation: swallowed
          \/ \E e \in Errors : Catch(e, evs) /\ url' = url   \* the press throws
    /\ UNCHANGED <<signals, reauth, retryVars, totpCode>>

\* a catch clause that lets everything but a timeout through
ReauthCatches_TimeoutOnly(e) == e.name = "TimeoutError"

\* STEP 5's catch clause has no binding and no test: it takes every error
ReauthCatches(e) == TRUE

\* STEP 5: try { waitForSelector(signinUsername, 6 s); signIn(.., newPassword) }
\*         catch { console.log('No re-authentication form detected ..') }
Fandom_Reauth ==
    /\ pc = "f_reauth"
    /\ LET probe == << Op("waitForSelector", SEL.signinUsername, "") >>
           seen == << Log("log", "Re-authentication detected after password change. Signing in with NEW password.") >>
           none == << Log("log", "No re-authentication form detected after password change. Proceeding to logout.") >>
           replay == signInForm(username, ReauthPassword)
       IN \/ /\ reauth' = "absent"
             /\ Step("f_gotoLogout", probe \o none) /\ url' = url
          \/ /\ reauth' = "detected"
             /\ \E f \in OpPositions(replay), e \in Errors :
                   LET ran == probe \o seen \o Ran(replay, f) \o << Threw(e) >>
                   IN IF ReauthCatches(e)
                      THEN Step("f_gotoLogout", ran \o none)
                      ELSE Catch(e, ran)
             /\ url' = url
          \/ /\ reauth' = "detected"
             /\ \E e \in Errors, waited \in BOOLEAN :
                   LET failed == IF waited THEN << Threw(e) >>
                                 ELSE << WaitFailed("waitForNavigation", "signIn"),
                                         Threw(e) >>
                       ran == probe \o seen \o replay \o signInSubmit \o failed
                   IN IF ReauthCatches(e)
                      THEN Step("f_gotoLogout", ran \o none)
                      ELSE Catch(e, ran)
             /\ url' = url
          \/ /\ reauth' = "detected"
             /\ \E u \in FandomPages :
                   /\ url' = u
                   /\ Step("f_gotoLogout",
                           probe \o seen \o replay \o signInSubmit
                           \o << Log("log", "Sign-in attempted. Current URL: " \o u) >>)
    /\ UNCHANGED <<signals, retryVars, totpCode>>

\* STEP 6: page.goto(logoutUrl)
Fandom_GotoLogout ==
    /\ pc = "f_gotoLogout"
    /\ LET evs == << Log("log", "Navigating to logout page: "
                                \o buildUrls(FandomBaseUrl).logoutUrl),
                     Op("goto", buildUrls(FandomBaseUrl).logoutUrl, "") >>
       IN \/ \E u \in FandomPages : Step("f_confirm", evs) /\ url' = u
          \/ \E e \in Errors : Catch(e, evs) /\ url' = url
    /\ UNCHANGED <<signals, reauth, retryVars, totpCode>>

\* safeClick(page, selector, description) up to the click
safeClickWait(sel, description) ==
    << Op("waitFor", sel, "visible"),
       Log("log", "Click: " \o description \o " -> " \o sel) >>

\* safeClick's Promise.all([waitForNavigation().catch(() => {}), click()])
safeClickPair(sel) ==
    << Op("waitForNavigation", "load", ""), Op("click", sel, "") >>

\* STEP 6: safeClick(page, SEL.logoutConfirm, 'Logout Confirm'), then the result
Fandom_ConfirmLogout ==
    /\ pc = "f_confirm"
    /\ LET head == << Log("log", "Confirming logout") >>
           wait == safeClickWait(SEL.logoutConfirm, "Logout Confirm")
           pair == safeClickPair(SEL.logoutConfirm)
           msg(u) == "Password changed and logout completed. Final URL: " \o u
       IN \/ \E e \in Errors :
                Catch(e, head \o SubSeq(wait, 1, 1)) /\ url' = url
          \/ \E e \in Errors : Catch(e, head \o wait \o pair) /\ url' = url
          \/ \E u \in FandomPages :
                /\ url' = u
                /\ Return(RunResult(TRUE, msg(u)),
                          head \o wait \o pair \o << Log("info", msg(u)) >>)
          \* no navigation: the wait rejects and is swallowed
          \/ /\ url' = url
             /\ Return(RunResult(TRUE, msg(url)),
                       head \o wait \o pair
                       \o << WaitFailed("waitForNavigation", "safeClick"),
                             Log("info", msg(url)) >>)
    /\ UNCHANGED <<signals, reauth, retryVars, totpCode>>

Fandom ==
    \/ Fandom_GotoLogin
    \/ Fandom_SignInForm
    \/ Fandom_SignInSubmit
    \/ Fandom_GotoChangePassword
    \/ Fandom_EnterNewPassword
    \/ Fandom_SubmitNewPassword
    \/ Fandom_Reauth
    \/ Fandom_GotoLogout
    \/ Fandom_ConfirmLogout

----------------------------------------------------------------------------
(* pcpartpicker: src/unnamed/part_000 *)

PcppLoginUrl == "https://pcpartpicker.com/accounts/login/"
PcppChangePasswordUrl == "https://pcpartpicker.com/accounts/password/change/"

PcppSel ==
    [loginForm |-> "form[action=/accounts/login/]",
     user |-> "#id_username, input[name=username], input#id_login",
     pass |-> "#id_password, input[name=password]",
     submit |-> "#form_submit",
     logout |-> "a[href=/accounts/logout/]",
     oldPass |-> "#id_old_password, input[name=old_password]",
     newPass1 |-> "#id_new_password1, input[name=new_password1]",
     newPass2 |-> "#id_new_password2, input[name=new_password2]",
     changeBtn |-> "input.button[type=submit][value=Change Password]",
     successText |-> "text=Your password has been changed."]

\* where a pcpartpicker navigation can leave the page
PcppPages ==
    {"https://pcpartpicker.com/accounts/login/",
     "https://pcpartpicker.com/accounts/password/change/",
     "https://pcpartpicker.com/accounts/password/change/done/"}

\* safeGoto(page, url): every failure of page.goto is logged and swallowed, and
\* so is the failure of the load-state wait that follows it
pcpp_safeGoto(target) ==
    LET nav == << Log("log", "[nav] goto " \o target), Op("goto", target, "") >>
        warn(e) == << Log("error", "[warn] page.goto error: " \o ErrString(e)),
                      Op("waitForLoadState", "domcontentloaded", "") >>
    IN {[url |-> u, evs |-> nav, fault |-> 0] : u \in PcppPages}
       \cup {[url |-> u, evs |-> nav \o warn(e), fault |-> 1] :
                u \in {url, target}, e \in Errors}

\* waitForVisible(page, selector)
waitForVisible(sel) ==
    << Log("log", "[wait] visible " \o sel),
       Op("waitFor", sel, "visible") >>

\* the Promise.all of a submit: the load wait and the click, started together
pcpp_submitPair(sel) ==
    << Op("waitForLoadState", "load", ""), Op("click", sel, "") >>

\* .catch((err) => console.error(`[warn] load wait after ..`)): what the load
\* wait leaves in the log, nothing when it settles
pcpp_loadWait(label) ==
    { [evs |-> << >>, fault |-> 0] }
    \cup {[evs |-> << WaitFailed("waitForLoadState", label),
                       Log("error", "[warn] load wait after " \o label \o ": "
                                    \o ErrString(e)) >>, fault |-> 1] : e \in Errors}

\* a verification that wants both signals
PcppSuccess_Both(successUrl, successTextVisible) == successUrl /\ successTextVisible

\* if (successUrl || successTextVisible)
PcppSuccess(successUrl, successTextVisible) == successUrl \/ successTextVisible

BoolStr(b) == IF b THEN "true" ELSE "false"

\* Step 1: safeGoto(page, INPUTS.loginUrl)
Pcpp_GotoLogin ==
    /\ pc = "p_gotoLogin"
    /\ \E o \in pcpp_safeGoto(PcppLoginUrl) :
          StepF("p_fillLogin", o.evs, o.fault) /\ url' = o.url
    /\ UNCHANGED <<signals, reauth, retryVars, totpCode>>

\* Step 1: wait for the login form and its fields, fill them
Pcpp_FillLogin ==
    /\ Block("p_fillLogin",
             waitForVisible(PcppSel.loginForm) \o waitForVisible(PcppSel.user)
             \o waitForVisible(PcppSel.pass)
             \o << Log("log", "[action] fill username"),
                   Op("fill", PcppSel.user, username),
                   Log("log", "[action] fill password"),
                   Op("fill", PcppSel.pass, password),
                   Log("log", "[action] submit login") >>,
             "p_submitLogin")
    /\ UNCHANGED <<url, signals, reauth, retryVars, totpCode>>

\* Step 1: submit the login form; only the click can throw
Pcpp_SubmitLogin ==
    /\ pc = "p_submitLogin"
    /\ \/ \E w \in pcpp_loadWait("login"), u \in PcppPages :
             StepF("p_checkLogin", pcpp_submitPair(PcppSel.submit) \o w.evs, w.fault)
             /\ url' = u
       \/ \E e \in Errors :
             Catch(e, pcpp_submitPair(PcppSel.submit)) /\ url' = url
    /\ UNCHANGED <<signals, reauth, retryVars, totpCode>>

\* Verify login: loggedIn and stillOnLogin are isVisible().catch(() => false)
Pcpp_CheckLogin ==
    /\ pc = "p_checkLogin"
    /\ \E loggedIn \in BOOLEAN, stillOnLogin \in BOOLEAN :
          LET evs == << Op("isVisible", PcppSel.logout, ""),
                        Op("isVisible", PcppSel.loginForm, ""),
                        Log("log", "[state] After login: url=" \o url
                                   \o " loggedIn=" \o BoolStr(loggedIn)
                                   \o " stillOnLogin=" \o BoolStr(stillOnLogin)) >>
              msg == "Login appears to have failed: login form still visible after submit."
          IN IF ~loggedIn /\ stillOnLogin
             THEN Return(RunResult(FALSE, msg), evs \o << Log("error", msg) >>)
             ELSE Step("p_gotoChange", evs)
    /\ UNCHANGED <<url, signals, reauth, retryVars, totpCode>>

\* Step 2: safeGoto(page, INPUTS.changePasswordUrl)
Pcpp_GotoChangePassword ==
    /\ pc = "p_gotoChange"
    /\ \E o \in pcpp_safeGoto(PcppChangePasswordUrl) :
          StepF("p_fillChange", o.evs, o.fault) /\ url' = o.url
    /\ UNCHANGED <<signals, reauth, retryVars, totpCode>>

\* Step 2: wait for the three password fields, fill them
Pcpp_FillChange ==
    /\ Block("p_fillChange",
             waitForVisible(PcppSel.oldPass) \o waitForVisible(PcppSel.newPass1)
             \o waitForVisible(PcppSel.newPass2)
             \o << Log("log", "[action] fill old password"),
                   Op("fill", PcppSel.oldPass, password),
                   Log("log", "[action] fill new password"),
                   Op("fill", PcppSel.newPass1, newPassword),
                   Log("log", "[action] confirm new password"),
                   Op("fill", PcppSel.newPass2, newPassword),
                   Log("log", "[action] submit change password") >>,
             "p_submitChange")
    /\ UNCHANGED <<url, signals, reauth, retryVars, totpCode>>

\* Step 2: submit the change-password form; only the click can throw
Pcpp_SubmitChange ==
    /\ pc = "p_submitChange"
    /\ \/ \E w \in pcpp_loadWait("change submit"), u \in PcppPages :
             StepF("p_verify", pcpp_submitPair(PcppSel.changeBtn) \o w.evs, w.fault)
             /\ url' = u
       \/ \E e \in Errors :
             Catch(e, pcpp_submitPair(PcppSel.changeBtn)) /\ url' = url
    /\ UNCHANGED <<signals, reauth, retryVars, totpCode>>

\* Step 3: Verify success
Pcpp_Verify ==
    /\ pc = "p_verify"
    /\ \E successTextVisible \in BOOLEAN :
          LET successUrl == Includes(url, "/accounts/password/change/done/")
              evs == << Op("isVisible", PcppSel.successText, "") >>
              good == "Password changed successfully."
              bad == "Password change may have failed: success URL or confirmation text not detected."
          IN /\ signals' = (IF successUrl THEN {"doneUrl"} ELSE {})
                           \cup (IF successTextVisible THEN {"text"} ELSE {})
             /\ IF PcppSuccess(successUrl, successTextVisible)
                THEN Return(RunResult(TRUE, good), evs \o << Log("info", good) >>)
                ELSE Return(RunResult(FALSE, bad), evs \o << Log("error", bad) >>)
    /\ UNCHANGED <<url, reauth, retryVars, totpCode>>

Pcpp ==
    \/ Pcpp_GotoLogin
    \/ Pcpp_FillLogin
    \/ Pcpp_SubmitLogin
    \/ Pcpp_CheckLogin
    \/ Pcpp_GotoChangePassword
    \/ Pcpp_FillChange
    \/ Pcpp_SubmitChange
    \/ Pcpp_Verify

----------------------------------------------------------------------------
(* zillow: src/unnamed/part_001 *)

ZillowStartUrl ==
    "https://www.zillow.com/auth/user/login?entry_point=auth_ui_service_error_page&prompt=login"
ZillowProfileUrl == "https://www.zillow.com/myzillow/profile/"
ZillowLogoutUrl == "https://www.zillow.com/Logout.htm"

ZillowSel ==
    [email |-> "input[data-testid=identifier-input]",
     pwd |-> "#password[data-testid=password-input] input[type=password]",
     changeBtn |-> "button[aria-label=Change password]",
     current |-> "#current-password-input",
     new |-> "#new-password-input",
     confirm |-> "#confirm-password-input",
     apply |-> "form button[type=submit]",
     dialog |-> "section[role=dialog]"]

\* Math.max(4, Math.min(len, 12))
MaskMin == 4
MaskMax == 12

\* maskSecret(value)
maskSecret(value) ==
    IF value = "" THEN "" ELSE Repeat("*", Max(MaskMin, Min(Len(value), MaskMax)))

\* where the page can be when a zillow page.goto has thrown
ZillowStrayUrls ==
    {"https://www.zillow.com/", "https://identity.zillow.com/captcha",
     "about:blank"}

\* safeGoto's catch: targetHost && currentHost && targetHost === currentHost,
\* false when new URL(..) throws
zillow_sameHost(target, current) ==
    /\ ValidURL(target) /\ ValidURL(current)
    /\ URLHost(target) # "" /\ URLHost(current) # ""
    /\ URLHost(target) = URLHost(current)

\* a navigator's verdict after page.goto threw: the fallback it evaluated
Fallback(target, current, verdict) ==
    [k |-> "fallback", a |-> target, b |-> current, c |-> verdict]

\* safeGoto(page, url, label): the outcomes {ret, url, evs}
zillow_safeGoto(target, label) ==
    LET nav == << Log("log", "[NAV] " \o label \o ": " \o target),
                  Op("goto", target, "") >>
    IN {[ret |-> TRUE, url |-> target, fault |-> 0, evs |-> nav]}
       \cup {[ret |-> TRUE, url |-> target, fault |-> 1,
              evs |-> nav \o << Log("log", "[NAV] " \o label
                     \o ": no response object returned (may still be fine).") >>]}
       \cup {[ret |-> TRUE, url |-> target, fault |-> 1,
              evs |-> nav \o << Log("error", "[NAV] " \o label
                     \o ": HTTP 503 Service Unavailable") >>]}
       \cup {IF zillow_sameHost(target, u)
             THEN [ret |-> TRUE, url |-> u, fault |-> 1,
                   evs |-> nav \o << Fallback(target, u, "reached"),
                       Log("log", "[NAV] " \o label
                           \o ": load timeout/warning but on expected host "
                           \o URLHost(u) \o ". Continuing.") >>]
             ELSE [ret |-> FALSE, url |-> u, fault |-> 0,
                   evs |-> nav \o << Fallback(target, u, "notReached"),
                       Log("error", "[NAV] " \o label
                           \o ": failed to navigate -> " \o ErrMessageOr(e)) >>]
             : u \in ZillowStrayUrls, e \in Errors}

\* expectVisible(locator, desc) for the locators in turn, as `a && b && c`
\* evaluates them: the events when the one at position miss is not visible
\* (miss = 0: all are visible)
RECURSIVE expectVisible(_, _, _)
expectVisible(locs, miss, e) ==
    IF Len(locs) = 0 THEN << >>
    ELSE IF miss = 1
    THEN << Op("waitFor", locs[1].sel, "visible"),
            Log("error", "[WAIT] " \o locs[1].desc
                         \o ": not visible within 15000ms -> " \o ErrMessageOr(e)) >>
    ELSE << Op("waitFor", locs[1].sel, "visible") >>
         \o expectVisible(Tail(locs), miss - 1, e)

\* expectVisible on locs; if one is not visible return {success:false, failMsg},
\* else run block inside the try and go to next
Zillow_Expect(at, locs, failMsg, block, next) ==
    /\ pc = at
    /\ \/ \E miss \in 1..Len(locs), e \in Errors :
             Return(RunResult(FALSE, failMsg), expectVisible(locs, miss, e))
       \/ \E f \in {0} \cup OpPositions(block) :
             IF f = 0 THEN Step(next, expectVisible(locs, 0, NoErr) \o block)
             ELSE \E e \in Errors :
                     Catch(e, expectVisible(locs, 0, NoErr) \o Ran(block, f))

\* a safeGoto whose false return ends the flow with failMsg
Zillow_Goto(at, target, label, failMsg, next) ==
    /\ pc = at
    /\ \E o \in zillow_safeGoto(target, label) :
          /\ url' = o.url
          /\ IF o.ret THEN StepF(next, o.evs, o.fault)
             ELSE Return(RunResult(FALSE, failMsg), o.evs)

\* Step 1: open the login page
Zillow_GotoLogin ==
    /\ Zillow_Goto("z_gotoLogin", ZillowStartUrl, "Open login page",
                   "Failed to open login page", "z_email")
    /\ UNCHANGED <<signals, reauth, retryVars, totpCode>>

\* Step 2: type the email and press Enter
Zillow_Email ==
    /\ Zillow_Expect("z_email",
          << [sel |-> ZillowSel.email, desc |-> "Email input [data-testid=identifier-input]"] >>,
          "Email input not available",
          << Log("log", "[ACTION] Typing email (" \o maskSecret(username)
                        \o ") and submitting"),
             Op("fill", ZillowSel.email, username),
             Op("press", ZillowSel.email, "Enter") >>,
          "z_password")
    /\ UNCHANGED <<url, signals, reauth, retryVars, totpCode>>

\* Step 3: type the current password and press Enter
Zillow_Password ==
    /\ Zillow_Expect("z_password",
          << [sel |-> ZillowSel.pwd, desc |-> "Password input #password"] >>,
          "Password input not available",
          << Log("log", "[ACTION] Typing current password ("
                        \o maskSecret(password) \o ") and submitting"),
             Op("fill", ZillowSel.pwd, password),
             Op("press", ZillowSel.pwd, "Enter") >>,
          "z_gotoProfile")
    /\ UNCHANGED <<url, signals, reauth, retryVars, totpCode>>

\* Step 4: go to the profile page
Zillow_GotoProfile ==
    /\ Zillow_Goto("z_gotoProfile", ZillowProfileUrl, "Open My Profile",
                   "Failed to open My Profile page", "z_openDialog")
    /\ UNCHANGED <<signals, reauth, retryVars, totpCode>>

\* Step 5: open the Change password dialog
Zillow_OpenDialog ==
    /\ Zillow_Expect("z_openDialog",
          << [sel |-> ZillowSel.changeBtn,
              desc |-> "Change password button [aria-label=Change password]"] >>,
          "Change password button not available",
          << Log("log", "[ACTION] Opening Change password dialog"),
             Op("click", ZillowSel.changeBtn, "") >>,
          "z_fillDialog")
    /\ UNCHANGED <<url, signals, reauth, retryVars, totpCode>>

\* Step 6: fill current, new and confirm
Zillow_FillDialog ==
    /\ Zillow_Expect("z_fillDialog",
          << [sel |-> ZillowSel.current,
              desc |-> "Current password input #current-password-input"],
             [sel |-> ZillowSel.new,
              desc |-> "New password input #new-password-input"],
             [sel |-> ZillowSel.confirm,
              desc |-> "Confirm password input #confirm-password-input"] >>,
          "One or more password dialog inputs are not available",
          << Log("log", "[ACTION] Filling current (" \o maskSecret(password)
                        \o "), new (" \o maskSecret(newPassword)
                        \o "), and confirm new password"),
             Op("fill", ZillowSel.current, password),
             Op("fill", ZillowSel.new, newPassword),
             Op("fill", ZillowSel.confirm, newPassword) >>,
          "z_apply")
    /\ UNCHANGED <<url, signals, reauth, retryVars, totpCode>>

\* Step 6: click Apply
Zillow_Apply ==
    /\ Zillow_Expect("z_apply",
          << [sel |-> ZillowSel.apply,
              desc |-> "Apply button (type=submit) inside dialog"] >>,
          "Apply button not available",
          << Log("log", "[ACTION] Submitting password change"),
             Op("click", ZillowSel.apply, "") >>,
          "z_race")
    /\ UNCHANGED <<url, signals, reauth, retryVars, totpCode>>

\* Post-submit: Promise.race of waitForURL(host www.zillow.com) and the dialog
\* becoming detached, each with .catch(() => null); the value is not read
Zillow_Race ==
    /\ pc = "z_race"
    /\ \E seen \in SUBSET {"url", "detached"} :
          /\ signals' = seen
          /\ Step("z_logout", << Op("waitForURL", "www.zillow.com", ""),
                                 Op("waitFor", ZillowSel.dialog, "detached") >>)
    /\ UNCHANGED <<url, reauth, retryVars, totpCode>>

\* Step 7: logout; a false return of safeGoto is logged and the flow succeeds
Zillow_Logout ==
    /\ pc = "z_logout"
    /\ \E o \in zillow_safeGoto(ZillowLogoutUrl, "Logout") :
          LET msg == "Password change flow executed and logout attempted successfully."
          IN /\ url' = o.url
             /\ ReturnF(RunResult(TRUE, msg),
                        o.evs
                        \o (IF o.ret THEN << >>
                            ELSE << Log("error", "Logout navigation experienced an issue, but continuing to finalize.") >>)
                        \o << Log("info", msg) >>,
                        o.fault)
    /\ UNCHANGED <<signals, reauth, retryVars, totpCode>>

Zillow ==
    \/ Zillow_GotoLogin
    \/ Zillow_Email
    \/ Zillow_Password
    \/ Zillow_GotoProfile
    \/ Zillow_OpenDialog
    \/ Zillow_FillDialog
    \/ Zillow_Apply
    \/ Zillow_Race
    \/ Zillow_Logout

----------------------------------------------------------------------------
(* weather: src/unnamed/part_002 *)

WeatherBaseUrl == "https://weather.com"

WeatherSel ==
    [avatar |-> "span.ProfileAvatar--initial--dkm7v",
     loginEmail |-> "#loginEmail",
     loginPassword |-> "#loginPassword",
     loginSubmit |-> "button.MemberLoginForm--submitButton--Bz-ob[type=submit]",
     changeBtn |-> "button.MemberProfileForm--changePasswordButton--EzOT4",
     current |-> "#changePasswordCurrentPassword",
     new |-> "#changePasswordNewPassword",
     confirm |-> "#changePasswordConfirmPassword",
     save |-> "button.MemberChangePasswordForm--submitButton--9cU6R[type=submit]",
     errorHint |-> "[class*=Error], [data-error], .FormError"]

\* where a weather navigation can leave the page
WeatherPages == {"https://weather.com/", "https://weather.com/member/settings"}

\* where the page can be when a weather navigation or load wait has thrown
WeatherStrayUrls ==
    {"https://weather.com/login",
     "https://consent.example.net/?next=https://weather.com/login",
     "about:blank"}

\* clickWithRetry(page, selector, attempts = 2)
DefaultAttempts == 2

\* the loop condition one turn too generous: i <= attempts
RetryLoopCondition_OffByOne == i <= attempts

\* for (let i = 0; i < attempts; i++)
RetryLoopCondition == i < attempts

\* a catch block that keeps the first error it has seen
CaughtLastErr_First(prev, e) == IF prev = NoErr THEN e ELSE prev

\* catch (e) { lastErr = e; .. }
CaughtLastErr(prev, e) == e

\* one turn of clickWithRetry's loop: the click settles and the call returns,
\* or it throws, the warning is printed and the fixed wait follows
clickWithRetry_attempt ==
    /\ retryStatus = "running"
    /\ RetryLoopCondition
    /\ LET click == Op("click", selector, "") IN
       \/ /\ retryStatus' = "returned"
          /\ trace' = Append(trace, click)
          /\ UNCHANGED <<i, lastErr, faults>>
       \/ \E e \in Errors :
             \* a call whose clicks fail is one of the run's MaxFaults failures
             /\ i = 0 => faults < MaxFaults
             /\ faults' = IF i = 0 THEN faults + 1 ELSE faults
             /\ lastErr' = CaughtLastErr(lastErr, e)
             /\ i' = i + 1
             /\ trace' = trace \o
                   << click,
                      Threw(e),
                      Log("warn", "[clickWithRetry] Attempt " \o ToString(i + 1)
                                  \o " failed for " \o selector \o ". Retrying..."),
                      Op("waitForTimeout", "750", "") >>
             /\ UNCHANGED retryStatus
    /\ UNCHANGED <<inputVars, form, totpCode, pc, url, outcome, results, signals,
                   reauth, selector, attempts>>

\* the loop is left without a return: console.error(..); throw lastErr
clickWithRetry_exhausted ==
    /\ retryStatus = "running"
    /\ ~RetryLoopCondition
    /\ retryStatus' = "threw"
    /\ trace' = Append(trace, Log("error", "[clickWithRetry] All attempts failed for "
                                           \o selector))
    /\ UNCHANGED <<inputVars, form, totpCode, pc, url, outcome, results, signals,
                   reauth, faults, selector, attempts, i, lastErr>>

\* the call clickWithRetry(page, sel) of the flow
CallClickWithRetry(sel) ==
    /\ selector' = sel
    /\ attempts' = DefaultAttempts
    /\ i' = 0
    /\ lastErr' = NoErr
    /\ retryStatus' = "running"

\* the call has returned or thrown and its caller goes on: its frame is gone
RetryDone ==
    /\ retryStatus' = "idle"
    /\ selector' = ""
    /\ attempts' = 0
    /\ i' = 0
    /\ lastErr' = NoErr

\* catch (err) of gotoWithLoad: atUrl.includes(new URL(url).hostname)
weather_atTarget(target, atUrl) == Includes(atUrl, URLHostname(target))

\* gotoWithLoad(page, url): the outcomes {thrown, err, url, evs}
gotoWithLoad(target) ==
    LET nav == << Op("goto", target, "") >>
    IN {[thrown |-> FALSE, err |-> NoErr, url |-> u, fault |-> 0, evs |-> nav] :
            u \in {target}}
       \cup {IF weather_atTarget(target, u)
             THEN [thrown |-> FALSE, err |-> NoErr, url |-> u, fault |-> 1,
                   evs |-> nav \o << Fallback(target, u, "reached"),
                       Log("warn", "[nav] Load timeout, but currently at " \o u
                                   \o ". Continuing.") >>]
             ELSE [thrown |-> TRUE, err |-> e, url |-> u, fault |-> 0,
                   evs |-> nav \o << Fallback(target, u, "notReached") >>]
             : u \in WeatherStrayUrls, e \in Errors}

\* waitVisible(page, selector): the wait, and the line printed when it throws
waitVisible(sel) == Op("waitFor", sel, "visible")
waitVisibleFailed(sel) ==
    Log("error", "[waitVisible] Timed out waiting for selector: " \o sel)

\* fillInput(page, selector, value)
fillInput(sel, value) ==
    << waitVisible(sel), Op("fill", sel, ""), Op("fill", sel, value) >>

\* a block of awaited calls inside weather's try; a waitVisible that throws
\* prints its line first
Weather_Block(at, block, next) ==
    /\ pc = at
    /\ \E f \in {0} \cup OpPositions(block) :
          IF f = 0 THEN Step(next, block)
          ELSE \E e \in Errors :
                  Catch(e, Ran(block, f)
                           \o (IF block[f].a = "waitFor" /\ block[f].c = "visible"
                               THEN << waitVisibleFailed(block[f].b) >>
                               ELSE << >>))

\* a gotoWithLoad inside the try
Weather_Goto(at, head, target, next) ==
    /\ pc = at
    /\ \E o \in gotoWithLoad(target) :
          /\ url' = o.url
          /\ IF o.thrown THEN Catch(o.err, head \o o.evs)
             ELSE StepF(next, head \o o.evs, o.fault)

\* Step A: gotoWithLoad(page, `${baseUrl}/?Goto=Redirected`)
Weather_GotoBase ==
    /\ Weather_Goto("w_gotoBase", << Log("log", "[Step A] Navigate to base URL") >>,
                    StripTrailingSlash(WeatherBaseUrl) \o "/?Goto=Redirected",
                    "w_isLoggedIn")
    /\ UNCHANGED <<signals, reauth, retryVars, totpCode>>

\* a check that takes every page for a logged-in one
isLoggedIn_Always(visible) == TRUE

\* isLoggedIn(page): what avatar.isVisible() gave, false when it rejected
isLoggedIn(visible) == visible

\* Step B: if (!(await isLoggedIn(page))) { .. } else { .. }; what the avatar
\* check gave is kept with the call
Weather_IsLoggedIn ==
    /\ pc = "w_isLoggedIn"
    /\ \E visible \in BOOLEAN :
          LET probe == << Op("isVisible", WeatherSel.avatar, BoolStr(visible)) >>
          IN IF isLoggedIn(visible)
             THEN Step("w_stepC", probe
                       \o << Log("log", "[Step B] Already logged in (avatar detected).") >>)
             ELSE Step("w_gotoLogin", probe
                       \o << Log("log", "[Step B] Not logged in. Navigating to login page.") >>)
    /\ UNCHANGED <<url, signals, reauth, retryVars, totpCode>>

\* Step B: gotoWithLoad(page, `${baseUrl}/login`)
Weather_GotoLogin ==
    /\ Weather_Goto("w_gotoLogin", << >>,
                    StripTrailingSlash(WeatherBaseUrl) \o "/login", "w_fillLogin")
    /\ UNCHANGED <<signals, reauth, retryVars, totpCode>>

\* Step B: fill the login form and call clickWithRetry on the submit button
Weather_FillLogin ==
    /\ Weather_Block("w_fillLogin",
                     fillInput(WeatherSel.loginEmail, username)
                     \o fillInput(WeatherSel.loginPassword, password)
                     \o << Log("log", "[Step B] Submit login form") >>,
                     "w_clickLogin")
    /\ IF pc' = "w_clickLogin" THEN CallClickWithRetry(WeatherSel.loginSubmit)
       ELSE UNCHANGED retryVars
    /\ UNCHANGED <<url, signals, reauth, totpCode>>

\* a clickWithRetry inside the try has finished: go on, or catch what it threw
Weather_Clicked(at, next) ==
    /\ pc = at
    /\ \/ retryStatus = "returned" /\ Step(next, << >>)
       \/ retryStatus = "threw" /\ Catch(lastErr, << >>)
    /\ RetryDone

\* Step B: the login click is over
Weather_ClickLogin ==
    /\ Weather_Clicked("w_clickLogin", "w_loginLoad")
    /\ UNCHANGED <<url, signals, reauth, totpCode>>

\* Step B: waitForLoadState('load'); a timeout is tolerated when the URL
\* includes 'weather.com'
Weather_LoginLoad ==
    /\ pc = "w_loginLoad"
    /\ LET wait == << Op("waitForLoadState", "load", "") >>
           next == << Log("log", "[Step B] Verify login by checking profile avatar") >>
       IN \/ \E u \in WeatherPages : url' = u /\ Step("w_verifyLogin", wait \o next)
          \/ \E u \in WeatherStrayUrls, e \in Errors :
                /\ url' = u
                /\ IF Includes(u, "weather.com")
                   THEN StepF("w_verifyLogin",
                              wait \o << Log("warn", "[login] Load wait timed out but at "
                                                     \o u \o ". Proceeding.") >> \o next,
                              1)
                   ELSE Catch(e, wait)
    /\ UNCHANGED <<signals, reauth, retryVars, totpCode>>

\* Step B: waitVisible(page, avatar, 30000)
Weather_VerifyLogin ==
    /\ Weather_Block("w_verifyLogin", << waitVisible(WeatherSel.avatar) >>, "w_stepC")
    /\ UNCHANGED <<url, signals, reauth, retryVars, totpCode>>

\* Step C: call clickWithRetry on the avatar, inside the inner try
Weather_StepC ==
    /\ pc = "w_stepC"
    /\ Step("w_clickAvatar", << Log("log", "[Step C] Navigate to Member Settings") >>)
    /\ CallClickWithRetry(WeatherSel.avatar)
    /\ UNCHANGED <<url, signals, reauth, totpCode>>

\* a check that takes every page for the settings page
OnSettingsPath_Any(u) == TRUE

\* page.url().includes('/member/settings')
OnSettingsPath(u) == Includes(u, "/member/settings")

\* Step C: after the avatar click, wait for load and look at the URL; whatever
\* the inner try throws is ignored and leaves navigatedToSettings false
Weather_ClickAvatar ==
    /\ pc = "w_clickAvatar"
    /\ LET wait == << Op("waitForLoadState", "load", "") >>
       IN \/ /\ retryStatus = "threw"
             /\ Step("w_gotoSettings", << >>) /\ url' = url
          \/ /\ retryStatus = "returned"
             /\ \E u \in WeatherPages \cup {url} :
                   /\ url' = u
                   /\ Step("w_gotoSettings",
                           wait \o << WaitFailed("waitForLoadState", "Step C") >>)
          \/ /\ retryStatus = "returned"
             /\ \E u \in WeatherPages :
                   /\ url' = u
                   /\ Step(IF OnSettingsPath(u)
                           THEN "w_stepD" ELSE "w_gotoSettings", wait)
    /\ RetryDone
    /\ UNCHANGED <<signals, reauth, totpCode>>

\* Step C: fallback gotoWithLoad(page, `${baseUrl}/member/settings`)
Weather_GotoSettings ==
    /\ Weather_Goto("w_gotoSettings",
                    << Log("log", "[Step C] Fallback direct navigation to settings") >>,
                    StripTrailingSlash(WeatherBaseUrl) \o "/member/settings",
                    "w_stepD")
    /\ UNCHANGED <<signals, reauth, retryVars, totpCode>>

\* Step D: wait for the Change password button and call clickWithRetry on it
Weather_StepD ==
    /\ Weather_Block("w_stepD",
                     << Log("log", "[Step D] Open Change Password dialog"),
                        waitVisible(WeatherSel.changeBtn) >>,
                     "w_clickChange")
    /\ IF pc' = "w_clickChange" THEN CallClickWithRetry(WeatherSel.changeBtn)
       ELSE UNCHANGED retryVars
    /\ UNCHANGED <<url, signals, reauth, totpCode>>

\* Step D: the click is over
Weather_ClickChange ==
    /\ Weather_Clicked("w_clickChange", "w_fillChange")
    /\ UNCHANGED <<url, signals, reauth, totpCode>>

\* const currentPassword = INPUTS.currentPassword || loginPassword
weather_currentPassword ==
    IF currentPassword # "" THEN currentPassword ELSE password

\* Step E, F: fill the three fields and call clickWithRetry on Save
Weather_FillChange ==
    /\ Weather_Block("w_fillChange",
                     << Log("log", "[Step E] Fill Change Password form") >>
                     \o fillInput(WeatherSel.current, weather_currentPassword)
                     \o fillInput(WeatherSel.new, newPassword)
                     \o fillInput(WeatherSel.confirm, newPassword)
                     \o << Log("log", "[Step F] Submit Change Password form") >>,
                     "w_clickSave")
    /\ IF pc' = "w_clickSave" THEN CallClickWithRetry(WeatherSel.save)
       ELSE UNCHANGED retryVars
    /\ UNCHANGED <<url, signals, reauth, totpCode>>

\* Step F: the click is over
Weather_ClickSave ==
    /\ Weather_Clicked("w_clickSave", "w_verify")
    /\ UNCHANGED <<url, signals, reauth, totpCode>>

\* the dialog counted as closed only when its input was detached
WeatherSuccess_DetachedOnly(detached, hidden) == detached

\* success = true after the 'detached' wait, or in its catch after the
\* 'hidden' wait
WeatherSuccess(detached, hidden) == detached \/ hidden

\* `Password change may have failed. Dialog still present. Error hint: ${errorText}`
WeatherFailedMessage(errorText) ==
    "Password change may have failed. Dialog still present. Error hint: " \o errorText

\* Step G: detached within 20 s, else hidden within 8 s, else the error hint,
\* which is 'Unknown error' when reading it rejects
Weather_Verify ==
    /\ pc = "w_verify"
    /\ LET head == << Log("log", "[Step G] Verify password change by waiting for dialog to close") >>
           detached == << Op("waitFor", WeatherSel.current, "detached") >>
           hidden == << Op("waitFor", WeatherSel.current, "hidden") >>
           hint == << Op("innerText", WeatherSel.errorHint, "") >>
           good == "Password changed successfully on weather.com"
       IN \E d \in BOOLEAN, h \in BOOLEAN :
             /\ d => ~h
             /\ signals' = IF d THEN {"detached"} ELSE IF h THEN {"hidden"} ELSE {}
             /\ LET waits == IF d THEN head \o detached ELSE head \o detached \o hidden
                IN IF WeatherSuccess(d, h)
                   THEN Return(RunResult(TRUE, good), waits \o << Log("info", good) >>)
                   ELSE \/ \E errorText \in {"Password is too weak"} :
                             Return(RunResult(FALSE, WeatherFailedMessage(errorText)),
                                    waits \o hint
                                    \o << Log("error", WeatherFailedMessage(errorText)) >>)
                        \/ \E e \in Errors :
                             Return(RunResult(FALSE, WeatherFailedMessage("Unknown error")),
                                    waits \o hint
                                    \o << Threw(e),
                                          Log("error", WeatherFailedMessage("Unknown error")) >>)
    /\ UNCHANGED <<url, reauth, retryVars, totpCode>>

Weather ==
    \/ Weather_GotoBase
    \/ Weather_IsLoggedIn
    \/ Weather_GotoLogin
    \/ Weather_FillLogin
    \/ Weather_ClickLogin
    \/ Weather_LoginLoad
    \/ Weather_VerifyLogin
    \/ Weather_StepC
    \/ Weather_ClickAvatar
    \/ Weather_GotoSettings
    \/ Weather_StepD
    \/ Weather_ClickChange
    \/ Weather_FillChange
    \/ Weather_ClickSave
    \/ Weather_Verify

----------------------------------------------------------------------------
(* wikipedia: the TypeScript in src/README.md *)

WikiBaseUrl == "https://en.wikipedia.org"
WikiLoginUrl == WikiBaseUrl \o "/w/index.php?title=Special:UserLogin"
WikiOverviewUrl == WikiBaseUrl \o "/wiki/Special:ChangeCredentials"
WikiPasswordForm ==
    WikiBaseUrl
    \o "/wiki/Special:ChangeCredentials/MediaWiki%5CAuth%5CPasswordAuthenticationRequest"

\* /Special:ChangeCredentials\/MediaWiki%5CAuth%5CPasswordAuthenticationRequest/.test(u)
OnPasswordForm(u) ==
    Includes(u, "Special:ChangeCredentials/MediaWiki%5CAuth%5CPasswordAuthenticationRequest")

WikiSel ==
    [userpage |-> "#pt-userpage",
     name |-> "#wpName1", nameLabel |-> "label=/username|user name/i",
     pass |-> "#wpPassword1", passLabel |-> "label=/password/i",
     loginSubmit |-> "#wpLoginAttempt, [name=wploginattempt]",
     otpHeading |-> "heading=/two-factor|oath|authentication code/i",
     otpLabel |-> "label=/one-time|authentication code|verification code|2-step/i",
     otpInput |-> "input[id*=oath], input[name*=oath], input[id*=otp], input[name*=otp]",
     otpSubmit |-> "button=/continue|verify|submit|log in|proceed/i",
     pwdEntry |-> "dt:has-text(Password-based authentication)",
     newLabel |-> "label=/new password/i",
     currentLabel |-> "label=/current password/i",
     confirmLabel |-> "label=/confirm new password|retype new password|confirm password/i",
     saveBtn |-> "button=/save|change|submit|apply/i",
     errorBox |-> ".mw-message-box-error, .oo-ui-messageDialog-error",
     successBox |-> ".mw-message-box-success, .mw-notification-area, .mw-notification"]

\* where a wikipedia navigation can leave the page
WikiPages == {WikiBaseUrl \o "/wiki/Main_Page", WikiPasswordForm}

\* the wikis the flow is run against: with or without the canonical ids
\* #wpName1 and #wpPassword1, with or without submit buttons the flow finds
WikiSites == [ids : BOOLEAN, buttons : BOOLEAN]

\* safeWaitForLoad(page, label): a timeout is logged and swallowed
safeWaitForLoad(label) ==
    { [fault |-> 0,
       evs |-> << Op("waitForLoadState", "load", ""),
                  Log("log", "[wait] load achieved for: " \o label) >>],
      [fault |-> 1,
       evs |-> << Op("waitForLoadState", "load", ""),
                  Log("log", "[wait-warning] load timeout for " \o label
                             \o "; proceeding if DOM state is sufficient.") >>] }

\* safeGoto(page, url, label) up to the goto, which may throw
wiki_safeGoto(target, label) ==
    << Log("log", "[nav] goto " \o label \o ": " \o target), Op("goto", target, "") >>

\* waitVisible(page, locator, label)
wiki_waitVisible(sel, label) ==
    << Log("log", "[wait] waiting for visible " \o label), Op("waitFor", sel, "visible") >>

\* click, fill(''), type(value): how every wikipedia field is written
wiki_typeInto(sel, value) ==
    << Op("click", sel, ""), Op("fill", sel, ""), Op("type", sel, value) >>

\* a safeGoto inside the try
Wiki_Goto(at, target, label, next) ==
    /\ pc = at
    /\ \/ \E w \in safeWaitForLoad(label) :
             url' = target /\ StepF(next, wiki_safeGoto(target, label) \o w.evs, w.fault)
       \/ \E e \in Errors : url' = url /\ Catch(e, wiki_safeGoto(target, label))

\* a check that takes every page for a logged-in one
ensureLoggedIn_Always(count) == TRUE

\* ensureLoggedIn(page): if (await page.locator('#pt-userpage').first().count())
ensureLoggedIn(count) == count # 0

\* the count of '#pt-userpage' is kept with the call
userpageProbe(count) == << Op("count", WikiSel.userpage, ToString(count)) >>

\* ensureLoggedIn(page): #pt-userpage counted; yes and no are the next labels
Wiki_EnsureLoggedIn(at, yes, no) ==
    /\ pc = at
    /\ \/ \E count \in {0, 1} :
             IF ensureLoggedIn(count)
             THEN Step(yes, userpageProbe(count)
                       \o << Log("log", "[auth] Already logged in (found #pt-userpage).") >>)
             ELSE Step(no, userpageProbe(count))
       \/ \E e \in Errors : Catch(e, << Op("count", WikiSel.userpage, "") >>)

\* login: if (await ensureLoggedIn(page)) return
Wiki_LoginCheck ==
    /\ Wiki_EnsureLoggedIn("k_ensureLoggedIn", "k_gotoForm", "k_gotoLogin")
    /\ UNCHANGED <<url, signals, reauth, retryVars, totpCode>>

\* login: safeGoto(page, loginUrl, 'Login page')
Wiki_GotoLogin ==
    /\ Wiki_Goto("k_gotoLogin", WikiLoginUrl, "Login page", "k_ensureAfterGoto")
    /\ UNCHANGED <<signals, reauth, retryVars, totpCode>>

\* login: if redirected and already logged in, continue
Wiki_LoginCheckAfterGoto ==
    /\ Wiki_EnsureLoggedIn("k_ensureAfterGoto", "k_gotoForm", "k_fillLogin")
    /\ UNCHANGED <<url, signals, reauth, retryVars, totpCode>>

\* login: user name and password, each by its id or else by its label
Wiki_FillLogin ==
    /\ LET userSel == IF site.ids THEN WikiSel.name ELSE WikiSel.nameLabel
           passSel == IF site.ids THEN WikiSel.pass ELSE WikiSel.passLabel
       IN Block("k_fillLogin",
                << Op("count", WikiSel.name, "") >>
                \o wiki_waitVisible(userSel, "username input")
                \o wiki_typeInto(userSel, username)
                \o << Op("count", WikiSel.pass, "") >>
                \o wiki_waitVisible(passSel, "password input")
                \o wiki_typeInto(passSel, password),
                "k_submitLogin")
    /\ UNCHANGED <<url, signals, reauth, retryVars, totpCode>>

\* login: click the submit button if there is one, else press Enter
Wiki_SubmitLogin ==
    /\ pc = "k_submitLogin"
    /\ LET passSel == IF site.ids THEN WikiSel.pass ELSE WikiSel.passLabel
           act == IF site.buttons THEN Op("click", WikiSel.loginSubmit, "")
                  ELSE Op("press", passSel, "Enter")
           evs == << Op("count", WikiSel.loginSubmit, ""), act >>
       IN    \/ \E w \in safeWaitForLoad("post-login") :
                   url' = WikiBaseUrl \o "/wiki/Main_Page" /\ StepF("k_twoFactor", evs \o w.evs, w.fault)
             \/ \E e \in Errors : url' = url /\ Catch(e, evs)
    /\ UNCHANGED <<signals, reauth, retryVars, totpCode>>

\* handleTwoFactorIfPresent(page): the three counts of twoFAFound, evaluated
\* left to right until one is positive; found, the code is awaited from the
\* events API unless INPUTS.totpCode holds one
Wiki_TwoFactor ==
    /\ pc = "k_twoFactor"
    /\ \E via \in {"none", "heading", "label", "oath"} :
          LET n(b) == IF b THEN "1" ELSE "0"
              probes == << Op("count", WikiSel.otpHeading, n(via = "heading")) >>
                        \o (IF via = "heading" THEN << >>
                            ELSE << Op("count", WikiSel.otpLabel, n(via = "label")) >>)
                        \o (IF via \in {"heading", "label"} THEN << >>
                            ELSE << Op("count", WikiSel.otpInput, n(via = "oath")) >>)
              found == << Log("log", "[auth] Two-factor authentication detected.") >>
              ask == << Log("log", "[auth] Waiting for OTP from Anchor events API"),
                        Op("events.waitFor", "wikipedia-rotate-email-totp", "") >>
          IN IF via = "none" THEN Step("k_ensureAfterLogin", probes)
             ELSE IF totpCode = "" THEN Step("k_waitOtp", probes \o found \o ask)
             ELSE Step("k_enterOtp", probes \o found)
    /\ UNCHANGED <<url, signals, reauth, retryVars, totpCode>>

\* anchorClient.events.waitFor('wikipedia-rotate-email-totp') resolves: the
\* event carries the code, or it carries none and the flow throws
Wiki_OtpEvent ==
    /\ pc = "k_waitOtp"
    /\ \/ \E code \in {"123456"} :
             totpCode' = code /\ Step("k_enterOtp", << >>)
       \/ /\ Catch([name |-> "Error", message |-> "No OTP data received from event."],
                   << >>)
          /\ UNCHANGED totpCode
    /\ UNCHANGED <<url, signals, reauth, retryVars>>

\* const otp = twoFAInput.count ? twoFAInput : page.locator(..):
\* twoFAInput.count is the method itself, which is truthy
OtpTarget == WikiSel.otpLabel

\* handleTwoFactorIfPresent: enter the code and submit it
Wiki_EnterOtp ==
    /\ pc = "k_enterOtp"
    /\ LET otp == OtpTarget
           pre == wiki_waitVisible(otp, "2FA code input")
                  \o << Op("fill", otp, ""), Op("type", otp, totpCode),
                        Op("count", WikiSel.otpSubmit, "") >>
           act == IF site.buttons THEN Op("click", WikiSel.otpSubmit, "")
                  ELSE Op("press", otp, "Enter")
       IN \/ \E w \in safeWaitForLoad("post-2FA submission") :
                StepF("k_ensureAfterLogin", pre \o << act >> \o w.evs, w.fault)
          \/ \E f \in OpPositions(pre \o << act >>), e \in Errors :
                Catch(e, Ran(pre \o << act >>, f))
    /\ UNCHANGED <<url, signals, reauth, retryVars, totpCode>>

\* login: confirm logged in, else throw 'Login unsuccessful: ..'
Wiki_ConfirmLogin ==
    /\ pc = "k_ensureAfterLogin"
    /\ \/ \E count \in {0, 1} :
             IF ensureLoggedIn(count)
             THEN Step("k_gotoForm", userpageProbe(count)
                       \o << Log("log", "[auth] Already logged in (found #pt-userpage).") >>)
             ELSE Catch([name |-> "Error",
                         message |-> "Login unsuccessful: could not confirm logged-in state."],
                        userpageProbe(count))
       \/ \E e \in Errors : Catch(e, << Op("count", WikiSel.userpage, "") >>)
    /\ UNCHANGED <<url, signals, reauth, retryVars, totpCode>>

\* navigateToChangePassword: the direct link; bounced, the overview once
Wiki_GotoForm ==
    /\ pc = "k_gotoForm"
    /\ \/ \E u \in WikiPages, w \in safeWaitForLoad("Password change form") :
             /\ url' = u
             /\ StepF(IF OnPasswordForm(u) THEN "k_verifyIdentity" ELSE "k_overview",
                      wiki_safeGoto(WikiPasswordForm, "Password change form") \o w.evs,
                      w.fault)
       \/ \E e \in Errors :
             url' = url /\ Catch(e, wiki_safeGoto(WikiPasswordForm, "Password change form"))
    /\ UNCHANGED <<signals, reauth, retryVars, totpCode>>

\* navigateToChangePassword: the overview, then its password entry or the
\* direct link again
Wiki_Overview ==
    /\ Wiki_Goto("k_overview", WikiOverviewUrl, "Change Credentials overview",
                 "k_openEntry")
    /\ UNCHANGED <<signals, reauth, retryVars, totpCode>>

Wiki_OpenEntry ==
    /\ pc = "k_openEntry"
    /\ LET probe == << Op("count", WikiSel.pwdEntry, "") >>
           retry == wiki_safeGoto(WikiPasswordForm, "Password change form (retry)")
       IN \/ \E w \in safeWaitForLoad("open password change form") :
                /\ url' = WikiPasswordForm
                /\ StepF("k_verifyIdentity",
                         probe \o << Op("click", WikiSel.pwdEntry, "") >> \o w.evs,
                         w.fault)
          \/ \E e \in Errors :
                url' = url /\ Catch(e, probe \o << Op("click", WikiSel.pwdEntry, "") >>)
          \/ \E w \in safeWaitForLoad("Password change form (retry)") :
                url' = WikiPasswordForm /\ StepF("k_verifyIdentity", probe \o retry \o w.evs, w.fault)
          \/ \E e \in Errors : url' = url /\ Catch(e, probe \o retry)
    /\ UNCHANGED <<signals, reauth, retryVars, totpCode>>

\* verifyIdentityIfPrompted(page)
Wiki_VerifyIdentity ==
    /\ pc = "k_verifyIdentity"
    /\ LET probes == << Op("count", WikiSel.pass, ""), Op("count", WikiSel.passLabel, ""),
                        Op("count", WikiSel.newLabel, "") >>
       IN \/ Step("k_fillChange", probes) /\ url' = url
          \/    LET verifyPass == IF site.ids THEN WikiSel.pass ELSE WikiSel.passLabel
                    evs == probes
                           \o << Log("log", "[verify] Identity verification detected; entering current password.") >>
                           \o wiki_typeInto(verifyPass, password)
                           \o << Op("press", verifyPass, "Enter") >>
                IN \/ \E w \in safeWaitForLoad("post-verify identity") :
                         url' = url /\ StepF("k_fillChange", evs \o w.evs, w.fault)
                   \/ \E e \in Errors : url' = url /\ Catch(e, evs)
    /\ UNCHANGED <<signals, reauth, retryVars, totpCode>>

\* changePassword: the current password if the form has it, the new password
\* twice
Wiki_FillChange ==
    /\ \E hasCurrent \in BOOLEAN :
          Block("k_fillChange",
                << Op("count", WikiSel.currentLabel, "") >>
                \o (IF hasCurrent THEN wiki_typeInto(WikiSel.currentLabel, password)
                    ELSE << >>)
                \o wiki_waitVisible(WikiSel.newLabel, "New password")
                \o wiki_typeInto(WikiSel.newLabel, newPassword)
                \o wiki_waitVisible(WikiSel.confirmLabel, "Confirm new password")
                \o wiki_typeInto(WikiSel.confirmLabel, newPassword),
                "k_submitChange")
    /\ UNCHANGED <<url, signals, reauth, retryVars, totpCode>>

\* changePassword: click the submit button if there is one, else press Enter
Wiki_SubmitChange ==
    /\ pc = "k_submitChange"
    /\ LET act == IF site.buttons THEN Op("click", WikiSel.saveBtn, "")
                  ELSE Op("press", WikiSel.confirmLabel, "Enter")
           evs == << Op("count", WikiSel.saveBtn, ""), act >>
       IN    \/ \E u \in WikiPages, w \in safeWaitForLoad("submit password change") :
                   url' = u /\ StepF("k_outcome", evs \o w.evs, w.fault)
             \/ \E e \in Errors : url' = url /\ Catch(e, evs)
    /\ UNCHANGED <<signals, reauth, retryVars, totpCode>>

\* changePassword's outcome checks, and the flow's return
Wiki_Outcome ==
    /\ pc = "k_outcome"
    /\ \E hasErrorBox \in BOOLEAN, hasSuccessBox \in BOOLEAN :
          LET stillOnForm == OnPasswordForm(url)
              \* the count of error boxes is kept with the call
              probe == << Op("count", WikiSel.errorBox,
                             IF hasErrorBox THEN "1" ELSE "0") >>
              banner == << Op("count", WikiSel.successBox, "") >>
          IN IF stillOnForm /\ hasErrorBox
             THEN /\ Catch([name |-> "Error",
                            message |-> "Password change failed due to validation or policy error. Review new password complexity and try again."],
                           probe)
                  /\ signals' = signals
             ELSE /\ signals' = (IF hasSuccessBox THEN {"banner"} ELSE {})
                                \cup (IF stillOnForm THEN {} ELSE {"offForm"})
                  /\ Return(RunResult(TRUE, "Logged in and submitted password change successfully."),
                            probe \o banner
                            \o (IF hasSuccessBox
                                THEN << Log("log", "[success] Success message detected after password change.") >>
                                ELSE << Log("log", "[info] No explicit success banner detected; assuming success if not on form.") >>))
    /\ UNCHANGED <<url, reauth, retryVars, totpCode>>

Wikipedia ==
    \/ Wiki_LoginCheck
    \/ Wiki_GotoLogin
    \/ Wiki_LoginCheckAfterGoto
    \/ Wiki_FillLogin
    \/ Wiki_SubmitLogin
    \/ Wiki_TwoFactor
    \/ Wiki_EnterOtp
    \/ Wiki_ConfirmLogin
    \/ Wiki_GotoForm
    \/ Wiki_Overview
    \/ Wiki_OpenEntry
    \/ Wiki_VerifyIdentity
    \/ Wiki_FillChange
    \/ Wiki_SubmitChange
    \/ Wiki_Outcome

----------------------------------------------------------------------------
(* Form fields: what fill() and type() leave in a field *)

\* how often the filler is run on the field
MaxFills == 2

\* no field is being followed
NoForm == [mode |-> "", value |-> "", content |-> "", phase |-> "", k |-> 0,
           done |-> 0, once |-> ""]

\* a fill that types its value after what the field holds
FillContent_Append(content, v) == content \o v

\* locator.fill(v): the field's value is replaced by v
FillContent(content, v) == v

\* one key of locator.type(v, { delay }): the character is entered at the
\* caret, which fill('') left at the end of the field
TypeChar(content, ch) == content \o ch

\* what a field holds before it is filled, and the values it is filled with
PriorContents == {"", "old", "P@ss2!"}
FillValues == {"", "a", "ab", "P@ss2!", "alice", "654321"}

\* the filler has run on the field once more
FormFilled(content) ==
    [form EXCEPT !.content = content, !.phase = "clear", !.k = 0,
                 !.done = form.done + 1,
                 !.once = IF form.done = 0 THEN content ELSE form.once]

formFrame ==
    <<inputVars, totpCode, pc, url, trace, outcome, results, signals, reauth,
      faults, retryVars>>

\* fill(''): both weather's fillInput and wikipedia's fill-then-type clear first
Form_Clear ==
    /\ form.phase = "clear"
    /\ form.done < MaxFills
    /\ form' = [form EXCEPT !.content = FillContent(form.content, ""),
                            !.phase = "write", !.k = 0]
    /\ UNCHANGED formFrame

\* weather fillInput: fill(value)
Form_Fill ==
    /\ form.mode = "atomic"
    /\ form.phase = "write"
    /\ form' = FormFilled(FillContent(form.content, form.value))
    /\ UNCHANGED formFrame

\* wikipedia: type(value, { delay }) enters the next character
Form_Type ==
    /\ form.mode = "paced"
    /\ form.phase = "write"
    /\ form.k < Len(form.value)
    /\ form' = [form EXCEPT
                   !.content = TypeChar(form.content,
                                        SubSeq(form.value, form.k + 1, form.k + 1)),
                   !.k = form.k + 1]
    /\ UNCHANGED formFrame

\* wikipedia: type(value, { delay }) has entered every character
Form_Typed ==
    /\ form.mode = "paced"
    /\ form.phase = "write"
    /\ form.k = Len(form.value)
    /\ form' = FormFilled(form.content)
    /\ UNCHANGED formFrame

----------------------------------------------------------------------------
(* The specifications *)

Init ==
    /\ flow \in Flows
    /\ sessionId \in SessionIds
    /\ username \in Usernames
    /\ password \in PasswordsOf(flow)
    /\ site \in (IF flow = "wikipedia" THEN WikiSites
                 ELSE {[ids |-> TRUE, buttons |-> TRUE]})
    /\ newPassword \in NewPasswords
    /\ currentPassword \in (IF flow = "weather" THEN {"", "Old#pw"} ELSE {""})
    /\ totpCode \in (IF flow = "wikipedia" THEN {"", "654321"} ELSE {""})
    /\ pc = "getAnchorBrowser"
    /\ url = "about:blank"
    /\ trace = << >>
    /\ outcome = "running"
    /\ results = << >>
    /\ signals = {}
    /\ reauth = "none"
    /\ faults = 0
    /\ selector = ""
    /\ attempts = 0
    /\ i = 0
    /\ lastErr = NoErr
    /\ retryStatus = "idle"
    /\ form = NoForm

\* the steps of the flow functions
Program ==
    \/ getAnchorBrowser
    \/ GetPage
    \/ ValidateInputs
    \/ Fandom
    \/ Pcpp
    \/ Zillow
    \/ Weather
    \/ clickWithRetry_attempt
    \/ clickWithRetry_exhausted
    \/ Wikipedia

\* with the arrival of the awaited OTP event, which is the environment's step
Next ==
    \/ Program
    \/ Wiki_OtpEvent

Spec == Init /\ [][Next]_vars

\* the steps of ChangeWikipediaPassword
WikiProgram ==
    \/ getAnchorBrowser
    \/ GetPage
    \/ ValidateInputs
    \/ Wikipedia

InitWiki == Init /\ flow = "wikipedia"

NextWiki ==
    \/ WikiProgram
    \/ Wiki_OtpEvent

\* the wikipedia flow with every awaited page call settling, by its timeout
\* at the latest; anchorClient.events.waitFor(name) is given no timeout, so
\* nothing makes the OTP event arrive
SpecWikiLive == InitWiki /\ [][NextWiki]_vars /\ WF_vars(WikiProgram)

\* the selectors weather clicks through clickWithRetry
RetrySelectors ==
    {WeatherSel.loginSubmit, WeatherSel.avatar, WeatherSel.changeBtn, WeatherSel.save}

\* clickWithRetry(page, selector, attempts) called on its own, for every
\* value of attempts up to the bound
InitRetry ==
    /\ flow = "weather"
    /\ sessionId = "sess-1"
    /\ username = "alice"
    /\ password = "P@ss1"
    /\ newPassword = "P@ss2!"
    /\ currentPassword = ""
    /\ totpCode = ""
    /\ site = [ids |-> TRUE, buttons |-> TRUE]
    /\ pc = "clickWithRetry"
    /\ url = "https://weather.com/login"
    /\ trace = << >>
    /\ outcome = "running"
    /\ results = << >>
    /\ signals = {}
    /\ reauth = "none"
    /\ faults = 0
    /\ selector \in RetrySelectors
    /\ attempts \in 0..MaxAttempts
    /\ i = 0
    /\ lastErr = NoErr
    /\ retryStatus = "running"
    /\ form = NoForm

NextRetry ==
    \/ clickWithRetry_attempt
    \/ clickWithRetry_exhausted

SpecRetry == InitRetry /\ [][NextRetry]_vars

\* the form filler run on one field, in either mode, for every prior content
\* and every value
InitFill ==
    /\ flow \in {"weather", "wikipedia"}
    /\ sessionId = "sess-1"
    /\ username = "alice"
    /\ password = "P@ss1"
    /\ newPassword = "P@ss2!"
    /\ currentPassword = ""
    /\ totpCode = ""
    /\ site = [ids |-> TRUE, buttons |-> TRUE]
    /\ pc = "fill"
    /\ url = "about:blank"
    /\ trace = << >>
    /\ outcome = "running"
    /\ results = << >>
    /\ signals = {}
    /\ reauth = "none"
    /\ faults = 0
    /\ selector = ""
    /\ attempts = 0
    /\ i = 0
    /\ lastErr = NoErr
    /\ retryStatus = "idle"
    /\ \E prior \in PriorContents, v \in FillValues :
          form = [mode |-> IF flow = "weather" THEN "atomic" ELSE "paced",
                  value |-> v, content |-> prior, phase |-> "clear", k |-> 0,
                  done |-> 0, once |-> ""]

NextFill ==
    \/ Form_Clear
    \/ Form_Fill
    \/ Form_Type
    \/ Form_Typed

SpecFill == InitFill /\ [][NextFill]_vars

----------------------------------------------------------------------------
(* Properties of the flows *)

\* positions of the trace, and those holding a given event
Positions == 1..Len(trace)
PositionsOf(ev) == {p \in Positions : trace[p] = ev}

\* the run is over: the promise of the flow function has settled
Settled == outcome # "running"

\* the run ended with the validation failure
EndedMissingInputs ==
    /\ outcome = "returned"
    /\ Len(results) = 1
    /\ results[1].success = FALSE
    /\ SubSeq(results[1].message, 1, Len("Missing required inputs")) = "Missing required inputs"

\* C1: in each of the five flows, a run invoked with a required input absent or
\* empty ends with one result whose success is false and whose message names
\* every missing input.
C1_MissingInputsNamed ==
    (SomeInputMissing /\ Settled) =>
        /\ outcome = "returned"
        /\ Len(results) = 1
        /\ results[1].success = FALSE
        /\ \A k \in 1..Len(listMissingInputs(flow)) :
              Includes(results[1].message, listMissingInputs(flow)[k])

\* C2: whatever operation fails during an invocation, obtaining the session and
\* the page handle included, the flow function returns a result and its promise
\* never rejects.
C2_NeverRejects == outcome # "rejected"

\* C3: a run that ends with the 'Missing required inputs' result has made no
\* call on the browser provider or the page: no connect/create, page lookup,
\* navigation, wait, fill or click.
C3_NoInteractionBeforeMissing ==
    EndedMissingInputs => \A p \in Positions : ~IsOp(trace[p])

\* C4: whenever page.goto has failed, zillow's safeGoto and weather's
\* gotoWithLoad report the destination reached if the page's current URL has
\* the host of the requested URL, and not reached if the hosts differ.
C4_HostFallback ==
    \A p \in Positions :
        trace[p].k = "fallback" =>
            ((trace[p].c = "reached") <=> (URLHost(trace[p].b) = URLHost(trace[p].a)))

\* the click attempts clickWithRetry has made, and the failed ones among them
ClickAttempts == Cardinality(PositionsOf(Op("click", selector, "")))
FailedAttempts == Cardinality(PositionsOf(Op("waitForTimeout", "750", "")))

ReauthSeenAt ==
    PositionsOf(Log("log", "Re-authentication detected after password change. Signing in with NEW password."))

\* fandom: the sign-ins begun and the passwords typed after position q
SignInsAfter(q) ==
    {p \in Positions : p > q /\ trace[p] = Op("click", SEL.signinUsername, "")}
PasswordFillsAfter(q) ==
    {p \in Positions : p > q /\ trace[p].k = "op" /\ trace[p].a = "fill"
                                /\ trace[p].b = SEL.signinPassword}

\* C6: in the fandom flow, when the sign-in form reappears after the new
\* password was submitted, login is replayed once, with the new password and
\* never the old one; the flow then goes on to the logout navigation and the
\* confirm click, and the sign-in form showing again starts no further replay.
C6_ReauthOnceNewPassword ==
    (flow = "fandom" /\ reauth = "detected") =>
        /\ Cardinality(ReauthSeenAt) = 1
        /\ \A q \in ReauthSeenAt :
              /\ Cardinality(SignInsAfter(q)) <= 1
              /\ Cardinality(PasswordFillsAfter(q)) <= 1
              /\ \A p \in PasswordFillsAfter(q) :
                    trace[p].c = newPassword /\ trace[p].c # password
              /\ Cardinality({p \in Positions : p > q /\ trace[p]
                                 = Op("waitForSelector", SEL.signinUsername, "")}) = 1
              /\ pc \in {"f_gotoLogout", "f_confirm", "done"}
              /\ pc \in {"f_confirm", "done"} =>
                    \E p \in PositionsOf(Op("goto", buildUrls(FandomBaseUrl).logoutUrl, "")) :
                        p > q
              /\ (outcome = "returned" /\ results[1].success) =>
                    \E p \in PositionsOf(Op("click", SEL.logoutConfirm, "")) : p > q

\* the replay was made with the new password, the flow logged out and
\* returned, and the page is on the sign-in form once more
C6_Witness ==
    /\ flow = "fandom"
    /\ reauth = "detected"
    /\ \E q \in ReauthSeenAt :
          \E p \in PasswordFillsAfter(q) : trace[p].c = "P@ss2!"
    /\ outcome = "returned"
    /\ results[1].success
    /\ url = "https://auth.fandom.com/signin"

\* pcpartpicker reached its verification: the change form was submitted and
\* the confirmation text was looked for
PcppVerified ==
    /\ flow = "pcpartpicker"
    /\ outcome = "returned"
    /\ Len(trace) >= 2
    /\ trace[Len(trace) - 1] = Op("isVisible", PcppSel.successText, "")

\* C7: pcpartpicker, once the change form was submitted without error, returns
\* success = true exactly when the final URL contains
\* '/accounts/password/change/done/' or the text 'Your password has been
\* changed.' is visible; otherwise success = false with a message containing
\* 'may have failed'.
C7_PcppVerification ==
    PcppVerified =>
        /\ Len(results) = 1
        /\ results[1].success
              <=> (Includes(url, "/accounts/password/change/done/") \/ "text" \in signals)
        /\ ~results[1].success => Includes(results[1].message, "may have failed")

\* the done URL alone, the text not visible, gave success
C7_Witness ==
    /\ PcppVerified
    /\ Includes(url, "/accounts/password/change/done/")
    /\ "text" \notin signals
    /\ results[1].success

\* C8: every invocation produces exactly one result, on entering a terminal
\* state; nothing follows the result, and the result has a boolean success and
\* a non-empty message.
C8_ExactlyOneResult ==
    /\ Len(results) <= 1
    /\ Settled <=> pc = "done"
    /\ Settled =>
          /\ Len(results) = 1
          /\ results[1].success \in BOOLEAN
          /\ results[1].message # ""
          /\ retryStatus = "idle"

\* C9: in every flow a result with success = true is returned only if a
\* success signal was observed after the password-change submission: the done
\* URL, a visible confirmation, or the submitted form detached or hidden.
C9_SuccessNeedsSignal ==
    \A r \in 1..Len(results) : results[r].success => signals # {}

\* C11: filling a field with a value V twice in a row leaves what filling it
\* once leaves, for every V (the empty string included) and every prior
\* content, in the atomic mode (weather fillInput) and in the paced mode
\* (wikipedia's fill('') and type).
C11_FillIdempotent ==
    (form.done >= 2 /\ form.phase = "clear") =>
        form.content = form.once /\ form.content = form.value

\* the paced filler has typed a six-character value twice into a field that
\* held something else
C11_Witness ==
    /\ form.mode = "paced"
    /\ form.done = 2
    /\ form.value = "P@ss2!"
    /\ form.content = "P@ss2!"
    /\ form.once = "P@ss2!"

\* a wait for a required element to be visible threw at position p: the next
\* thing the flow did was to print an error
FailedWaitAt(p) ==
    /\ p < Len(trace)
    /\ IsOp(trace[p])
    /\ \/ trace[p].a = "waitFor" /\ trace[p].c = "visible"
       \/ trace[p].a = "waitForSelector"
    /\ IsLog(trace[p + 1])
    /\ trace[p + 1].a = "error"

\* wikipedia counted an error box after the password-change submission
ErrorBannerAt(p) == trace[p] = Op("count", WikiSel.errorBox, "1")

\* the run ended Failed, with a message
EndedFailed ==
    /\ outcome = "returned"
    /\ Len(results) = 1
    /\ ~results[1].success
    /\ results[1].message # ""

\* C12: in every flow, once a required element has not become visible within
\* its timeout, or an error banner was detected after the submission, the
\* flow is Failed at once with a message, and no later step (navigate, fill,
\* click, verify, logout) runs.
C12_FatalStepStops ==
    \A p \in Positions :
        /\ FailedWaitAt(p) =>
              EndedFailed /\ \A q \in Positions : q > p => ~IsOp(trace[q])
        /\ ErrorBannerAt(p) =>
              EndedFailed /\ \A q \in Positions : q > p => ~IsOp(trace[q])

\* C13: a navigation that ends on another host than the one requested (the
\* navigator's outcome is not reached) is fatal for its step: in every flow
\* and for every navigation step, the logout navigation included, it leads to
\* a Failed result and never to a Succeeded one.
C13_NotReachedIsFatal ==
    \A p \in Positions :
        (trace[p].k = "fallback" /\ trace[p].c = "notReached") => EndedFailed

\* C14: every invocation eventually reaches a terminal state and returns a
\* result, every timed primitive settling by its timeout: no flow has a state
\* in which it can wait forever, the wikipedia wait for the OTP event included.
C14_Terminates == <>(outcome # "running")

\* the flow's catch clause ran right after the event at position p
CaughtAfter(p) ==
    /\ p < Len(trace)
    /\ IsLog(trace[p + 1])
    /\ \E e \in Errors : trace[p + 1] = Log("error", CatchLog(flow, e))

\* C15: where an action (click or key press) is paired with a wait for
\* navigation or load started with it, a wait that fails or times out is
\* swallowed and never by itself makes the flow fail: in fandom's safeClick,
\* signIn and new-password submit and in both submits of pcpartpicker.
C15_PairedWaitSwallowed ==
    \A p \in Positions : trace[p].k = "waitFailed" => ~CaughtAfter(p)

\* the OTP field is waited for, cleared or typed into at position q
OtpFieldActedAt(q) ==
    /\ IsOp(trace[q])
    /\ trace[q].a \in {"waitFor", "fill", "type", "press"}
    /\ trace[q].b \in {WikiSel.otpLabel, WikiSel.otpInput}

\* C16: of several candidate expressions for one element the first with a
\* match is the one acted on: in wikipedia's handleTwoFactorIfPresent, 2FA
\* detected with no match of the label-based OTP input and a match of the
\* oath/otp selector, the code goes into that oath/otp input.
C16_OtpTargetByPriority ==
    \A p \in Positions :
        (/\ trace[p] = Op("count", WikiSel.otpInput, "1")
         /\ p > 1
         /\ trace[p - 1] = Op("count", WikiSel.otpLabel, "0"))
        => \A q \in Positions :
              (q > p /\ OtpFieldActedAt(q)) => trace[q].b = WikiSel.otpInput

\* weather: where Step C began, and what happened in it
StepCAt == PositionsOf(Log("log", "[Step C] Navigate to Member Settings"))
WeatherSettingsUrl == StripTrailingSlash(WeatherBaseUrl) \o "/member/settings"
DirectSettingsNavs ==
    {q \in Positions : trace[q] = Op("goto", WeatherSettingsUrl, "")}
AvatarClickFailed ==
    PositionsOf(Log("error", "[clickWithRetry] All attempts failed for "
                             \o WeatherSel.avatar)) # {}
StepCLoadFailed == PositionsOf(WaitFailed("waitForLoadState", "Step C")) # {}

\* the click succeeded, the load wait succeeded and the page is on the
\* settings path
LandedOnSettings(u) ==
    ~AvatarClickFailed /\ ~StepCLoadFailed /\ Includes(u, "/member/settings")

\* C17: after weather's Step C either the avatar click and its load wait
\* succeeded with the URL on '/member/settings', or exactly one direct
\* navigation to '<baseUrl>/member/settings' was issued; a failure of the click
\* or of the load wait is swallowed and leads to the direct navigation, which
\* is never issued when the click landed on the settings path.
C17_StepCFallback ==
    (flow = "weather" /\ StepCAt # {}) =>
        /\ Cardinality(DirectSettingsNavs) <= 1
        /\ pc = "w_gotoSettings" => (DirectSettingsNavs = {} /\ ~LandedOnSettings(url))
        /\ (pc = "w_stepD" /\ DirectSettingsNavs = {}) => LandedOnSettings(url)
        /\ (pc \notin {"w_clickAvatar", "w_gotoSettings"}
            /\ (AvatarClickFailed \/ StepCLoadFailed))
              => Cardinality(DirectSettingsNavs) = 1
        /\ PositionsOf(Log("log", "[Step D] Open Change Password dialog")) # {}
              => \/ Cardinality(DirectSettingsNavs) = 1
                 \/ ~AvatarClickFailed /\ ~StepCLoadFailed

\* both avatar clicks failed, the failure was swallowed, and the one direct
\* navigation brought the flow to Step D
C17_Witness ==
    /\ flow = "weather"
    /\ AvatarClickFailed
    /\ Cardinality(DirectSettingsNavs) = 1
    /\ PositionsOf(Log("log", "[Step D] Open Change Password dialog")) # {}

\* clickWithRetry: where an attempt threw, and where the fixed wait was made
ThrownAt == {p \in Positions : trace[p].k = "threw"}
BackoffAt == PositionsOf(Op("waitForTimeout", "750", ""))
LastThrown ==
    LET p == CHOOSE q \in ThrownAt : \A r \in ThrownAt : r <= q
    IN [name |-> trace[p].a, message |-> trace[p].b]

StepGAt ==
    PositionsOf(Log("log", "[Step G] Verify password change by waiting for dialog to close"))
HintReadFailed ==
    \E p \in Positions :
        /\ p > 1
        /\ trace[p].k = "threw"
        /\ trace[p - 1] = Op("innerText", WeatherSel.errorHint, "")
StartsWith(s, prefix) ==
    Len(s) >= Len(prefix) /\ SubSeq(s, 1, Len(prefix)) = prefix

\* C19: once weather's submit click has succeeded and Step G has run, the flow
\* has returned one result, which has success = true exactly when
\* '#changePasswordCurrentPassword' was detached within 20 s or, failing that,
\* hidden within 8 s; otherwise success = false and the message starts with
\* 'Password change may have failed'; a rejected read of the error hint is
\* not raised and puts 'Unknown error' in the message.
C19_WeatherVerification ==
    (flow = "weather" /\ StepGAt # {}) =>
        /\ outcome = "returned"
        /\ Len(results) = 1
        /\ results[1].success <=> (signals \cap {"detached", "hidden"} # {})
        /\ ~results[1].success =>
              StartsWith(results[1].message, "Password change may have failed")
        /\ HintReadFailed =>
              results[1] = RunResult(FALSE,
                  "Password change may have failed. Dialog still present. Error hint: Unknown error")

\* the input was not detached but was hidden, and the flow reported success
C19_Witness ==
    /\ flow = "weather"
    /\ StepGAt # {}
    /\ signals = {"hidden"}
    /\ Len(results) = 1
    /\ results[1].success

\* C20: wikipedia never returns success = true while the page is still on
\* the password-change form and no success banner was found.
C20_NoSuccessOnFormWithoutBanner ==
    (flow = "wikipedia" /\ outcome = "returned" /\ results[Len(results)].success) =>
        ("banner" \in signals \/ ~OnPasswordForm(url))

\* wikipedia: where '#pt-userpage' was found, where the login was submitted,
\* where the flow went to the change-password pages, and where it typed the
\* new password
UserpageFoundAt ==
    LET ev == Op("count", WikiSel.userpage, "1") IN {p \in Positions : trace[p] = ev}
UserpageMissingAt ==
    LET ev == Op("count", WikiSel.userpage, "0") IN {p \in Positions : trace[p] = ev}
LoginSubmittedAt ==
    LET evs == {Op("click", WikiSel.loginSubmit, ""), Op("press", WikiSel.pass, "Enter"),
                Op("press", WikiSel.passLabel, "Enter")}
    IN {p \in Positions : trace[p] \in evs}
ChangeFormNavAt ==
    LET evs == {Op("goto", WikiPasswordForm, ""), Op("goto", WikiOverviewUrl, "")}
    IN {p \in Positions : trace[p] \in evs}
NewPasswordTypedAt ==
    {p \in Positions : IsOp(trace[p]) /\ trace[p].a = "type" /\ trace[p].c = newPassword}

\* C21: wikipedia goes to the change-password form, and types the new
\* password, only after a count of '#pt-userpage' has found the element;
\* when the count made after the login submission finds none, the flow
\* returns success = false with 'Login unsuccessful', has not gone to the
\* change-password form and has not typed the new password.
C21_LoginGate ==
    flow = "wikipedia" =>
        LET found == UserpageFoundAt
            missing == UserpageMissingAt
            gated == ChangeFormNavAt \cup NewPasswordTypedAt
        IN /\ gated # {} => \E q \in found : \A p \in gated : q < p
           /\ missing # {} =>
                 LET submitted == LoginSubmittedAt
                 IN \A p \in missing :
                       (\E q \in submitted : q < p) =>
                          /\ outcome = "returned"
                          /\ results = << RunResult(FALSE,
                                 "Failed during workflow: Login unsuccessful: could not confirm logged-in state.") >>
                          /\ gated = {}

\* the login was submitted, '#pt-userpage' was then found, and the flow went
\* on to the change-password form and typed the new password
C21_Witness ==
    /\ flow = "wikipedia"
    /\ \E q \in LoginSubmittedAt, p \in UserpageFoundAt, n \in ChangeFormNavAt :
          q < p /\ p < n
    /\ NewPasswordTypedAt # {}

\* fandom: where an error was raised while the sign-in was replayed with the
\* new password, and where the flow went to the logout page
ReplayThrewAt ==
    {p \in Positions : trace[p].k = "threw" /\ (\E q \in ReauthSeenAt : q < p)}
LogoutNavAt == PositionsOf(Op("goto", buildUrls(FandomBaseUrl).logoutUrl, ""))

\* C22: in fandom, an error raised while the sign-in is replayed with the
\* new password (a field missing, a click failed, the navigation wait timed
\* out) is swallowed like the 'form not detected' case: the same line is
\* printed, the flow has not failed there and goes on to the logout
\* navigation.
C22_ReauthErrorsSwallowed ==
    flow = "fandom" =>
        \A p \in ReplayThrewAt :
            /\ trace[p + 1] = Log("log", "No re-authentication form detected after password change. Proceeding to logout.")
            /\ \/ pc = "f_gotoLogout" /\ outcome = "running"
               \/ \E n \in LogoutNavAt : n > p

\* the replayed sign-in raised an error and the flow still ended with
\* success = true
C22_Witness ==
    /\ flow = "fandom"
    /\ ReplayThrewAt # {}
    /\ outcome = "returned"
    /\ results[Len(results)].success

\* a value is written into a field of the page
IsWrite(ev, v) == IsOp(ev) /\ ev.a \in {"fill", "type"} /\ ev.c = v
WritesOf(v) == {p \in Positions : IsWrite(trace[p], v)}

\* the old password of the run: the login password and, in weather, the
\* current password of the change form
OldPasswords ==
    {password} \cup (IF flow = "weather" THEN {weather_currentPassword} ELSE {})

\* the calls that submit the login form
LoginSubmitOps ==
    CASE flow = "fandom" -> {Op("click", SEL.signinSubmit, "")}
      [] flow = "pcpartpicker" -> {Op("click", PcppSel.submit, "")}
      [] flow = "zillow" -> {Op("press", ZillowSel.pwd, "Enter")}
      [] flow = "weather" -> {Op("click", WeatherSel.loginSubmit, "")}
      [] flow = "wikipedia" ->
            {Op("click", WikiSel.loginSubmit, ""), Op("press", WikiSel.pass, "Enter"),
             Op("press", WikiSel.passLabel, "Enter")}

\* the calls that complete the login step: the login form submitted, or a
\* logged-in state detected
LoginDoneOps ==
    LoginSubmitOps
    \cup (CASE flow = "weather" -> {Op("isVisible", WeatherSel.avatar, "true")}
            [] flow = "wikipedia" -> {Op("count", WikiSel.userpage, "1")}
            [] OTHER -> {})

\* the calls that submit the password-change form
ChangeSubmitOps ==
    CASE flow = "fandom" -> {Op("press", SEL.settingsNewPassword, "Enter")}
      [] flow = "pcpartpicker" -> {Op("click", PcppSel.changeBtn, "")}
      [] flow = "zillow" -> {Op("click", ZillowSel.apply, "")}
      [] flow = "weather" -> {Op("click", WeatherSel.save, "")}
      [] flow = "wikipedia" ->
            {Op("click", WikiSel.saveBtn, ""), Op("press", WikiSel.confirmLabel, "Enter")}

\* C23: in every flow the steps run in order: the new password is written
\* into a field only after the login step was completed in the run (the
\* login form submitted, after the current password was written into it, or
\* a logged-in state detected); the change form is submitted only after the
\* new password was written; and the old password is never written into a
\* field after the change form was submitted.
C23_StepOrder ==
    LET old == OldPasswords
        submitOps == LoginSubmitOps
        doneOps == LoginDoneOps
        changeOps == ChangeSubmitOps
        calls == {p \in Positions : IsOp(trace[p])}
        writes == {p \in calls : trace[p].a \in {"fill", "type"}}
        newWrites == {p \in writes : trace[p].c = newPassword}
        oldWrites == {p \in writes : trace[p].c \in old}
        acts == calls \ writes
        loginDone == {p \in acts : trace[p] \in doneOps}
        loginSubmits == {p \in loginDone : trace[p] \in submitOps}
        changeSubmits == {p \in acts : trace[p] \in changeOps}
    IN /\ \A p \in newWrites : \E q \in loginDone : q < p
       /\ \A p \in loginSubmits : \E q \in oldWrites : q < p /\ trace[q].c = password
       /\ \A p \in changeSubmits :
             /\ \E q \in newWrites : q < p
             /\ \A q \in oldWrites : q < p

\* weather found the avatar, skipped the login, wrote the new password and
\* submitted the change form
C23_Witness ==
    /\ flow = "weather"
    /\ pc = "w_verify"
    /\ \A p \in Positions : trace[p] \notin LoginSubmitOps
    /\ \E p \in Positions : trace[p] \in LoginDoneOps
    /\ \E p \in Positions : trace[p] \in ChangeSubmitOps
    /\ WritesOf(newPassword) # {}

\* the lengths of the runs of '*' in a string
StarsOf(s) == {k \in 1..Len(s) : SubSeq(s, k, k) = "*"}
StarRuns(s) ==
    LET stars == StarsOf(s)
    IN {n \in 1..Cardinality(stars) :
           \E k \in stars :
               /\ (k - 1) \notin stars
               /\ \A j \in k..(k + n - 1) : j \in stars
               /\ (k + n) \notin stars}

\* the lengths of the placeholders printed so far
PlaceholderLengths ==
    UNION {StarRuns(trace[p].b) : p \in {q \in Positions : IsLog(trace[q])}}

\* C10: no log line depends on the value of a credential: every placeholder
\* zillow prints for a masked secret has one and the same length.
C10_FixedLengthPlaceholder ==
    flow = "zillow" => Cardinality(PlaceholderLengths) <= 1

============================================================================
